---------------------------- MODULE Spec2Model ----------------------------
(***************************************************************************)
(* A model of the paired-read merging engine of vsearch                    *)
(* (src/src/mergepairs.cc): the per-pair classifier (process, optimize,    *)
(* merge, keep, discard) as operators on a read-pair slot, and the chunk   *)
(* pipeline (pair_worker, chunk_perform_read/process/write) as a state     *)
(* machine of worker threads sharing one mutex and one condition variable. *)
(*                                                                         *)
(* Conventions.  C arrays are 0-based, TLA+ sequences 1-based: the code's  *)
(* buf[p] is buf[p + 1] here.  Bases are the strings "A" "C" "G" "T" "N".  *)
(* Quality symbols are their ASCII codes.  The code's doubles are fixed    *)
(* point integers: alignment scores in units of 1/ScoreScale bit, error    *)
(* probabilities in units of 1/ProbScale.                                  *)
(***************************************************************************)
EXTENDS Integers, Sequences, FiniteSets, TLC

(***************************************************************************)
(* Bounds of the model                                                     *)
(***************************************************************************)

\* pairs per chunk: a scaled-down chunk_size (500 in the code)
chunk_size == 2

\* largest number of worker threads (opt_threads) tried
MaxThreads == 3

\* largest number of forward records in the input of the pipeline
MaxPairs == 5

\* longest read of the per-pair inputs
MaxSeqLen == 9

(***************************************************************************)
(* Program constants                                                       *)
(***************************************************************************)

chunk_factor == 2

k == 5

ScoreScale == 1000 * 1000

ProbScale == 1000 * 1000

\* merge_dropmax = 16.0 bits
merge_dropmax == 16 * ScoreScale

\* merge_mismatchmax = -4.0 bits
merge_mismatchmax == (0 - 4) * ScoreScale

Reasons ==
  { "undefined", "ok", "minlen", "maxlen", "maxns", "minovlen", "maxdiffs",
    "maxdiffpct", "staggered", "indel", "repeat", "minmergelen",
    "maxmergelen", "maxee", "minscore", "nokmers" }

States == { "empty", "filled", "inprogress", "processed" }

Min(a, b) == IF a < b THEN a ELSE b

Max(a, b) == IF a > b THEN a ELSE b

\* B applied to the value of e: a local variable of the code that is
\* assigned once and read several times
Let(e, B(_)) == CHOOSE r \in { B(v) : v \in { e } } : TRUE

(***************************************************************************)
(* Quality symbols of the model: Q0 '!' (the recoded N and the first entry *)
(* of the tables), Q2 '#', Q40 'I', Q45 'N' (above the default qmax of 41) *)
(* and Q93 '~' (the last entry of the tables).                             *)
(***************************************************************************)

QSyms == { 33, 35, 73, 78, 126 }

\* the terminating zero of a C string, in a base buffer and a quality buffer
NUL == "NUL"

QNUL == 0

\* an element of a buffer that was allocated and never written
Junk == "?"

QJunk == 0 - 1

\* chrmap_complement restricted to the upper-case nucleotides
chrmap_complement(c) ==
  CASE c = "A" -> "T"
    [] c = "C" -> "G"
    [] c = "G" -> "C"
    [] c = "T" -> "A"
    [] OTHER -> "N"

(***************************************************************************)
(* The tables of precompute_qual, for the symbols of QSyms and the default *)
(* ASCII offset 33.  TLA+ has no logarithm: the entries are the values of  *)
(* the code's formulas at these symbols, rounded to the fixed-point unit.  *)
(***************************************************************************)

\* q_to_p for the symbols 33..126: 0.75 below quality 2, else 10^(-q/10);
\* in units of 1/ProbScale
Q2PTable ==
  << 750000, 750000, 630957, 501187, 398107, 316228, 251189, 199526, 158489, 125893,
     100000, 79433, 63096, 50119, 39811, 31623, 25119, 19953, 15849, 12589,
     10000, 7943, 6310, 5012, 3981, 3162, 2512, 1995, 1585, 1259,
     1000, 794, 631, 501, 398, 316, 251, 200, 158, 126,
     100, 79, 63, 50, 40, 32, 25, 20, 16, 13,
     10, 8, 6, 5, 4, 3, 3, 2, 2, 1,
     1, 1, 1, 1, 0, 0, 0, 0, 0, 0,
     0, 0, 0, 0, 0, 0, 0, 0, 0, 0,
     0, 0, 0, 0, 0, 0, 0, 0, 0, 0,
     0, 0, 0, 0 >>

q2p(x) == Q2PTable[x - 32]

\* round(-10 log10(px py / 3 / (1 - px - py + 4 px py / 3))), before clamping
QualSameRaw ==
  33 :> (33 :> 1 @@ 35 :> 2 @@ 73 :> 40 @@ 78 :> 45 @@ 126 :> 93) @@
  35 :> (33 :> 2 @@ 35 :> 3 @@ 73 :> 42 @@ 78 :> 47 @@ 126 :> 95) @@
  73 :> (33 :> 40 @@ 35 :> 42 @@ 73 :> 85 @@ 78 :> 90 @@ 126 :> 138) @@
  78 :> (33 :> 45 @@ 35 :> 47 @@ 73 :> 90 @@ 78 :> 95 @@ 126 :> 143) @@
  126 :> (33 :> 93 @@ 35 :> 95 @@ 73 :> 138 @@ 78 :> 143 @@ 126 :> 191)

\* round(-10 log10(px (1 - py / 3) / (px + py - 4 px py / 3))), before clamping
QualDiffRaw ==
  33 :> (33 :> 1 @@ 35 :> 1 @@ 73 :> 0 @@ 78 :> 0 @@ 126 :> 0) @@
  35 :> (33 :> 2 @@ 35 :> 2 @@ 73 :> 0 @@ 78 :> 0 @@ 126 :> 0) @@
  73 :> (33 :> 40 @@ 35 :> 39 @@ 73 :> 3 @@ 78 :> 1 @@ 126 :> 0) @@
  78 :> (33 :> 45 @@ 35 :> 44 @@ 73 :> 6 @@ 78 :> 3 @@ 126 :> 0) @@
  126 :> (33 :> 93 @@ 35 :> 92 @@ 73 :> 53 @@ 78 :> 48 @@ 126 :> 3)

\* log2((1 - px - py + 4 px py / 3) / 0.25), in units of 1/ScoreScale bit
match_score ==
  33 :> (33 :> 0 @@ 35 :> 0 @@ 73 :> 0 @@ 78 :> 0 @@ 126 :> 0) @@
  35 :> (33 :> 0 @@ 35 :> 105114 @@ 73 :> 561797 @@ 78 :> 561840 @@ 126 :> 561859) @@
  73 :> (33 :> 0 @@ 35 :> 561797 @@ 73 :> 1999711 @@ 78 :> 1999810 @@ 126 :> 1999856) @@
  78 :> (33 :> 0 @@ 35 :> 561840 @@ 73 :> 1999810 @@ 78 :> 1999909 @@ 126 :> 1999954) @@
  126 :> (33 :> 0 @@ 35 :> 561859 @@ 73 :> 1999856 @@ 78 :> 1999954 @@ 126 :> 2000000)

\* log2((1 - p) / 0.75) for the same p, before the minimum with
\* merge_mismatchmax is taken
MismRaw ==
  33 :> (33 :> 0 @@ 35 :> 0 @@ 73 :> 0 @@ 78 :> 0 @@ 126 :> 0) @@
  35 :> (33 :> 0 @@ 35 :> (0 - 36812) @@ 73 :> (0 - 249312) @@ 78 :> (0 - 249337) @@ 126 :> (0 - 249348)) @@
  73 :> (33 :> 0 @@ 35 :> (0 - 249312) @@ 73 :> (0 - 11872771) @@ 78 :> (0 - 12476312) @@ 126 :> (0 - 12872668)) @@
  78 :> (33 :> 0 @@ 35 :> (0 - 249337) @@ 73 :> (0 - 12476312) @@ 78 :> (0 - 13533669) @@ 126 :> (0 - 14533616)) @@
  126 :> (33 :> 0 @@ 35 :> (0 - 249348) @@ 73 :> (0 - 12872668) @@ 78 :> (0 - 14533616) @@ 126 :> (0 - 29478894))

mism_score(x, y) == Min(MismRaw[x][y], merge_mismatchmax)

merge_qual_same(cfg, x, y) ==
  cfg.ascii + Max(Min(QualSameRaw[x][y], cfg.qmaxout), cfg.qminout)

\* a disagreement table whose entries are not brought into the output bounds
merge_qual_diff_unclamped(cfg, x, y) == cfg.ascii + QualDiffRaw[x][y]

merge_qual_diff(cfg, x, y) ==
  cfg.ascii + Max(Min(QualDiffRaw[x][y], cfg.qmaxout), cfg.qminout)


(***************************************************************************)
(* Configuration (the opt_fastq_* options) and the two parameters that     *)
(* fastq_mergepairs derives from opt_fastq_minovlen.                       *)
(***************************************************************************)

merge_mindiagcount(cfg) ==
  IF cfg.minovlen < 9 THEN cfg.minovlen - 4 ELSE 4

merge_minscore(cfg) ==
  IF cfg.minovlen < 9 THEN (16 * cfg.minovlen * ScoreScale) \div 10
  ELSE 16 * ScoreScale

(***************************************************************************)
(* A read-pair slot (merge_data_s).  The header buffers are left out.      *)
(***************************************************************************)

EmptySlot ==
  [ fwd_sequence |-> << >>, rev_sequence |-> << >>,
    fwd_quality |-> << >>, rev_quality |-> << >>,
    seq_alloc |-> 0,
    fwd_length |-> 0, rev_length |-> 0,
    fwd_trunc |-> 0, rev_trunc |-> 0,
    pair_no |-> 0,
    merged_sequence |-> << >>, merged_quality |-> << >>,
    merged_length |-> 0, merged_seq_alloc |-> 0,
    ee_merged |-> 0, ee_fwd |-> 0, ee_rev |-> 0,
    fwd_errors |-> 0, rev_errors |-> 0,
    offset |-> 0, merged |-> FALSE,
    reason |-> "undefined", state |-> "empty" ]

\* xrealloc of a buffer of `old` elements to `needed` elements
Realloc(buf, needed, junk) ==
  [ i \in 1..needed |-> IF i <= Len(buf) THEN buf[i] ELSE junk ]

\* buf[p] = v of the code
Poke(buf, p, v) == [ buf EXCEPT ![p + 1] = v ]

\* a read_pair that sizes the merged buffers like the read buffers
read_pair_short(slot, rec, total) ==
  LET fl == Len(rec.fwd_sequence)
      rl == Len(rec.rev_sequence)
      seq_needed == Max(fl, rl) + 1
      merged_seq_needed == Max(fl, rl) + 1
      grown == merged_seq_needed > slot.merged_seq_alloc
      ms == IF grown THEN Realloc(slot.merged_sequence, merged_seq_needed, Junk)
            ELSE slot.merged_sequence
      mq == IF grown THEN Realloc(slot.merged_quality, merged_seq_needed, QJunk)
            ELSE slot.merged_quality
  IN [ slot EXCEPT
         !.fwd_length = fl,
         !.rev_length = rl,
         !.seq_alloc = Max(seq_needed, slot.seq_alloc),
         !.merged_seq_alloc = Max(merged_seq_needed, slot.merged_seq_alloc),
         !.fwd_sequence = rec.fwd_sequence,
         !.rev_sequence = rec.rev_sequence,
         !.fwd_quality = rec.fwd_quality,
         !.rev_quality = rec.rev_quality,
         !.merged_sequence = Poke(ms, 0, NUL),
         !.merged_quality = Poke(mq, 0, QNUL),
         !.merged = FALSE,
         !.pair_no = total ]

\* read_pair, once both fastq_next calls returned true: rec is the pair of
\* records the two readers hold, total the running count of pairs
read_pair(slot, rec, total) ==
  LET fl == Len(rec.fwd_sequence)
      rl == Len(rec.rev_sequence)
      seq_needed == Max(fl, rl) + 1
      merged_seq_needed == fl + rl + 1
      grown == merged_seq_needed > slot.merged_seq_alloc
      ms == IF grown THEN Realloc(slot.merged_sequence, merged_seq_needed, Junk)
            ELSE slot.merged_sequence
      mq == IF grown THEN Realloc(slot.merged_quality, merged_seq_needed, QJunk)
            ELSE slot.merged_quality
  IN [ slot EXCEPT
         !.fwd_length = fl,
         !.rev_length = rl,
         !.seq_alloc = Max(seq_needed, slot.seq_alloc),
         !.merged_seq_alloc = Max(merged_seq_needed, slot.merged_seq_alloc),
         !.fwd_sequence = rec.fwd_sequence,
         !.rev_sequence = rec.rev_sequence,
         !.fwd_quality = rec.fwd_quality,
         !.rev_quality = rec.rev_quality,
         !.merged_sequence = Poke(ms, 0, NUL),
         !.merged_quality = Poke(mq, 0, QNUL),
         !.merged = FALSE,
         !.pair_no = total ]

(***************************************************************************)
(* get_qual: the quality value of a symbol, or a fatal error.              *)
(***************************************************************************)

quality_value(cfg, quality_symbol) == quality_symbol - cfg.ascii

get_qual_fatal(cfg, quality_symbol) ==
  \/ quality_value(cfg, quality_symbol) < cfg.qmin
  \/ quality_value(cfg, quality_symbol) > cfg.qmax

\* a truncation loop that stops only below opt_fastq_truncqual
RECURSIVE TruncScanBelow(_, _, _, _)
TruncScanBelow(cfg, quality, i, length) ==
  IF i >= length THEN [ fatal |-> FALSE, trunc |-> length ]
  ELSE IF get_qual_fatal(cfg, quality[i + 1]) THEN [ fatal |-> TRUE, trunc |-> length ]
  ELSE IF quality_value(cfg, quality[i + 1]) < cfg.truncqual
       THEN [ fatal |-> FALSE, trunc |-> i ]
  ELSE TruncScanBelow(cfg, quality, i + 1, length)

\* the truncation loop of process over one read: the first position whose
\* quality value is at or below opt_fastq_truncqual ends the scan, and
\* get_qual exits the program at the first scanned symbol out of range
RECURSIVE TruncScan(_, _, _, _)
TruncScan(cfg, quality, i, length) ==
  IF i >= length THEN [ fatal |-> FALSE, trunc |-> length ]
  ELSE IF get_qual_fatal(cfg, quality[i + 1]) THEN [ fatal |-> TRUE, trunc |-> length ]
  ELSE IF quality_value(cfg, quality[i + 1]) <= cfg.truncqual
       THEN [ fatal |-> FALSE, trunc |-> i ]
  ELSE TruncScan(cfg, quality, i + 1, length)

\* the N loop of process over one read: quality of each N below trunc := ascii
RecodeN(cfg, sequence, quality, trunc) ==
  [ i \in 1..Len(quality) |->
      IF i <= trunc /\ sequence[i] = "N" THEN cfg.ascii ELSE quality[i] ]

NCount(sequence, trunc) ==
  Cardinality({ i \in 1..trunc : sequence[i] = "N" })

(***************************************************************************)
(* The k-mer diagonal index (kh_insert_kmers, kh_find_diagonals).  Its     *)
(* code is not part of the sources at hand: diags[d] is the number of      *)
(* k-mers without N that the forward read and the reverse-complemented     *)
(* reverse read share on diagonal d, the alignment that pairs forward      *)
(* position f with reverse position r when f + r = d - 1.                  *)
(***************************************************************************)

KmerShared(slot, f, s) ==
  \A j \in 0..(k - 1) :
     /\ slot.fwd_sequence[f + j + 1] # "N"
     /\ slot.fwd_sequence[f + j + 1]
          = chrmap_complement(slot.rev_sequence[s + (k - 1 - j) + 1])

kh_find_diagonals(slot, d) ==
  Cardinality({ f \in 0..(slot.fwd_trunc - k) :
                  LET s == d - k - f
                  IN /\ s >= 0
                     /\ s <= slot.rev_trunc - k
                     /\ KmerShared(slot, f, s) })

(***************************************************************************)
(* optimize: the ungapped alignment of each diagonal, then the rejection   *)
(* tests.                                                                  *)
(***************************************************************************)

\* the inner loop of optimize: one step per pair of bases of the overlap
RECURSIVE ScoreOverlap(_, _, _, _, _, _)
ScoreOverlap(slot, fwd_pos, rev_pos, j, overlap, a) ==
  IF j >= overlap THEN a
  ELSE
    LET fwd_sym == slot.fwd_sequence[fwd_pos + 1]
        rev_sym == chrmap_complement(slot.rev_sequence[rev_pos + 1])
        fwd_qual == slot.fwd_quality[fwd_pos + 1]
        rev_qual == slot.rev_quality[rev_pos + 1]
        next ==
          IF fwd_sym = rev_sym
          THEN LET score == a.score + match_score[fwd_qual][rev_qual]
               IN [ a EXCEPT !.score = score,
                             !.score_high = Max(score, a.score_high) ]
          ELSE LET score == a.score + mism_score(fwd_qual, rev_qual)
               IN [ a EXCEPT !.score = score,
                             !.diffs = a.diffs + 1,
                             !.dropmax = IF score < a.score_high - a.dropmax
                                         THEN a.score_high - score
                                         ELSE a.dropmax ]
    IN ScoreOverlap(slot, fwd_pos - 1, rev_pos + 1, j + 1, overlap, next)

\* a geometry that always aligns the overlap with the end of the reverse
\* read
DiagGeometryRevEnd(slot, i) ==
  LET fwd_3prime_overhang == IF i > slot.rev_trunc THEN i - slot.rev_trunc ELSE 0
      rev_3prime_overhang == IF i > slot.fwd_trunc THEN i - slot.fwd_trunc ELSE 0
      overlap == i - fwd_3prime_overhang - rev_3prime_overhang
  IN [ overlap |-> overlap,
       fwd_pos_start |-> slot.fwd_trunc - fwd_3prime_overhang - 1,
       rev_pos_start |-> slot.rev_trunc - overlap ]

\* the alignment of diagonal i: the overlap geometry and its score
DiagGeometry(slot, i) ==
  LET fwd_3prime_overhang == IF i > slot.rev_trunc THEN i - slot.rev_trunc ELSE 0
      rev_3prime_overhang == IF i > slot.fwd_trunc THEN i - slot.fwd_trunc ELSE 0
      overlap == i - fwd_3prime_overhang - rev_3prime_overhang
  IN [ overlap |-> overlap,
       fwd_pos_start |-> slot.fwd_trunc - fwd_3prime_overhang - 1,
       rev_pos_start |-> slot.rev_trunc - rev_3prime_overhang - overlap ]

\* a diagonal scores zero only when its score dropped by more than
\* merge_dropmax
DropScoreAbove(a) == IF a.dropmax > merge_dropmax THEN 0 ELSE a.score

\* a diagonal whose score dropped by merge_dropmax or more scores zero
DropScore(a) == IF a.dropmax >= merge_dropmax THEN 0 ELSE a.score

DiagScore(slot, i) ==
  LET g == DiagGeometry(slot, i)
  IN Let(ScoreOverlap(slot, g.fwd_pos_start, g.rev_pos_start, 0, g.overlap,
                      [ score |-> 0, diffs |-> 0, score_high |-> 0, dropmax |-> 0 ]),
         LAMBDA a :
           [ score |-> DropScore(a), diffs |-> a.diffs, dropmax |-> a.dropmax ])

\* the loop of optimize over the diagonals i1..i2
RECURSIVE DiagLoop(_, _, _, _, _)
DiagLoop(slot, cfg, i, i2, b) ==
  IF i > i2 THEN b
  ELSE
    LET diag == slot.rev_trunc + slot.fwd_trunc - i
        diagcount == kh_find_diagonals(slot, diag)
        next ==
          IF diagcount >= merge_mindiagcount(cfg)
          THEN Let(DiagScore(slot, i),
                   LAMBDA d :
                     LET better == d.score > b.best_score
                     IN [ kmers |-> 1,
                          hits |-> IF d.score >= merge_minscore(cfg)
                                   THEN b.hits + 1 ELSE b.hits,
                          best_score |-> IF better THEN d.score ELSE b.best_score,
                          best_i |-> IF better THEN i ELSE b.best_i,
                          best_diffs |-> IF better THEN d.diffs ELSE b.best_diffs ])
          ELSE b
    IN DiagLoop(slot, cfg, i + 1, i2, next)

Alignment(slot, cfg) ==
  DiagLoop(slot, cfg, 1, slot.fwd_trunc + slot.rev_trunc - 1,
           [ kmers |-> 0, hits |-> 0, best_score |-> 0, best_i |-> 0, best_diffs |-> 0 ])

\* the rejection tests with the score tested before the mismatches
OptimizeReasonScoreFirst(slot, cfg, b) ==
  LET mergelen == slot.fwd_trunc + slot.rev_trunc - b.best_i
  IN IF b.hits > 1 THEN "repeat"
     ELSE IF (~ cfg.allowmergestagger) /\ b.best_i > slot.fwd_trunc THEN "staggered"
     ELSE IF b.kmers = 0 THEN "nokmers"
     ELSE IF b.best_score < merge_minscore(cfg) THEN "minscore"
     ELSE IF b.best_diffs > cfg.maxdiffs THEN "maxdiffs"
     ELSE IF 100 * b.best_diffs > cfg.maxdiffpct * b.best_i THEN "maxdiffpct"
     ELSE IF b.best_i < cfg.minovlen THEN "minovlen"
     ELSE IF mergelen < cfg.minmergelen THEN "minmergelen"
     ELSE IF mergelen > cfg.maxmergelen THEN "maxmergelen"
     ELSE "none"

\* the rejection tests of optimize, in the order of the code; "none" when
\* no test matches.  100.0 * best_diffs / best_i > opt_fastq_maxdiffpct is
\* cross-multiplied (for best_i = 0 the code compares a NaN, which is false).
OptimizeReason(slot, cfg, b) ==
  LET mergelen == slot.fwd_trunc + slot.rev_trunc - b.best_i
  IN IF b.hits > 1 THEN "repeat"
     ELSE IF (~ cfg.allowmergestagger) /\ b.best_i > slot.fwd_trunc THEN "staggered"
     ELSE IF b.best_diffs > cfg.maxdiffs THEN "maxdiffs"
     ELSE IF 100 * b.best_diffs > cfg.maxdiffpct * b.best_i THEN "maxdiffpct"
     ELSE IF b.kmers = 0 THEN "nokmers"
     ELSE IF b.best_score < merge_minscore(cfg) THEN "minscore"
     ELSE IF b.best_i < cfg.minovlen THEN "minovlen"
     ELSE IF mergelen < cfg.minmergelen THEN "minmergelen"
     ELSE IF mergelen > cfg.maxmergelen THEN "maxmergelen"
     ELSE "none"

\* an optimize that returns 0 without setting the reason
optimize_silent(slot, cfg) ==
  Let(Alignment(slot, cfg),
      LAMBDA b :
        LET r == OptimizeReason(slot, cfg, b)
        IN [ slot |-> slot,
             offset |-> IF r = "none" THEN b.best_i ELSE 0,
             align |-> b ])

\* optimize: the slot with its reason set on a rejection, and the offset
optimize(slot, cfg) ==
  Let(Alignment(slot, cfg),
      LAMBDA b :
        LET r == OptimizeReason(slot, cfg, b)
        IN [ slot |-> IF r = "none" THEN slot ELSE [ slot EXCEPT !.reason = r ],
             offset |-> IF r = "none" THEN b.best_i ELSE 0,
             align |-> b ])

(***************************************************************************)
(* merge_sym and merge: the consensus of an accepted offset.               *)
(***************************************************************************)

\* a merge_sym that takes the forward base when the qualities are equal
merge_sym_fwd_on_tie(cfg, fwd_sym, rev_sym, fwd_qual, rev_qual) ==
  IF rev_sym = "N" THEN [ sym |-> fwd_sym, qual |-> fwd_qual ]
  ELSE IF fwd_sym = "N" THEN [ sym |-> rev_sym, qual |-> rev_qual ]
  ELSE IF fwd_sym = rev_sym
       THEN [ sym |-> fwd_sym, qual |-> merge_qual_same(cfg, fwd_qual, rev_qual) ]
  ELSE IF fwd_qual >= rev_qual
       THEN [ sym |-> fwd_sym, qual |-> merge_qual_diff(cfg, fwd_qual, rev_qual) ]
  ELSE [ sym |-> rev_sym, qual |-> merge_qual_diff(cfg, rev_qual, fwd_qual) ]

merge_sym(cfg, fwd_sym, rev_sym, fwd_qual, rev_qual) ==
  IF rev_sym = "N" THEN [ sym |-> fwd_sym, qual |-> fwd_qual ]
  ELSE IF fwd_sym = "N" THEN [ sym |-> rev_sym, qual |-> rev_qual ]
  ELSE IF fwd_sym = rev_sym
       THEN [ sym |-> fwd_sym, qual |-> merge_qual_same(cfg, fwd_qual, rev_qual) ]
  ELSE IF fwd_qual > rev_qual
       THEN [ sym |-> fwd_sym, qual |-> merge_qual_diff(cfg, fwd_qual, rev_qual) ]
  ELSE [ sym |-> rev_sym, qual |-> merge_qual_diff(cfg, rev_qual, fwd_qual) ]

\* the first loop of merge: the 5' overhang of the forward read
RECURSIVE MergeFwdOverhang(_, _)
MergeFwdOverhang(m, fwd_5prime_overhang) ==
  IF m.fwd_pos >= fwd_5prime_overhang THEN m
  ELSE
    LET sl == m.slot
        sym == sl.fwd_sequence[m.fwd_pos + 1]
        qual == sl.fwd_quality[m.fwd_pos + 1]
        ee == q2p(qual)
    IN MergeFwdOverhang(
         [ m EXCEPT
             !.slot = [ sl EXCEPT
                          !.merged_sequence = Poke(sl.merged_sequence, m.merged_pos, sym),
                          !.merged_quality = Poke(sl.merged_quality, m.merged_pos, qual),
                          !.ee_merged = sl.ee_merged + ee,
                          !.ee_fwd = sl.ee_fwd + ee ],
             !.fwd_pos = m.fwd_pos + 1,
             !.merged_pos = m.merged_pos + 1 ],
         fwd_5prime_overhang)

\* the second loop of merge: the merged region
RECURSIVE MergeOverlap(_, _)
MergeOverlap(m, cfg) ==
  IF ~ (m.fwd_pos < m.slot.fwd_trunc /\ m.rev_pos >= 0) THEN m
  ELSE
    LET sl == m.slot
        fwd_sym == sl.fwd_sequence[m.fwd_pos + 1]
        rev_sym == chrmap_complement(sl.rev_sequence[m.rev_pos + 1])
        fwd_qual == sl.fwd_quality[m.fwd_pos + 1]
        rev_qual == sl.rev_quality[m.rev_pos + 1]
        r == merge_sym(cfg,
                       IF fwd_qual < 2 THEN "N" ELSE fwd_sym,
                       IF rev_qual < 2 THEN "N" ELSE rev_sym,
                       fwd_qual, rev_qual)
    IN MergeOverlap(
         [ m EXCEPT
             !.slot = [ sl EXCEPT
                          !.fwd_errors = IF r.sym # fwd_sym THEN sl.fwd_errors + 1
                                         ELSE sl.fwd_errors,
                          !.rev_errors = IF r.sym # rev_sym THEN sl.rev_errors + 1
                                         ELSE sl.rev_errors,
                          !.merged_sequence = Poke(sl.merged_sequence, m.merged_pos, r.sym),
                          !.merged_quality = Poke(sl.merged_quality, m.merged_pos, r.qual),
                          !.ee_merged = sl.ee_merged + q2p(r.qual),
                          !.ee_fwd = sl.ee_fwd + q2p(fwd_qual),
                          !.ee_rev = sl.ee_rev + q2p(rev_qual) ],
             !.fwd_pos = m.fwd_pos + 1,
             !.rev_pos = m.rev_pos - 1,
             !.merged_pos = m.merged_pos + 1 ],
         cfg)

\* a third loop that copies the reverse bases without complementing them
RECURSIVE MergeRevOverhangPlain(_)
MergeRevOverhangPlain(m) ==
  IF m.rev_pos < 0 THEN m
  ELSE
    LET sl == m.slot
        sym == sl.rev_sequence[m.rev_pos + 1]
        qual == sl.rev_quality[m.rev_pos + 1]
    IN MergeRevOverhangPlain(
         [ m EXCEPT
             !.slot = [ sl EXCEPT
                          !.merged_sequence = Poke(sl.merged_sequence, m.merged_pos, sym),
                          !.merged_quality = Poke(sl.merged_quality, m.merged_pos, qual),
                          !.ee_merged = sl.ee_merged + q2p(qual),
                          !.ee_rev = sl.ee_rev + q2p(qual) ],
             !.rev_pos = m.rev_pos - 1,
             !.merged_pos = m.merged_pos + 1 ])

\* the third loop of merge: the 5' overhang of the reverse read
RECURSIVE MergeRevOverhang(_)
MergeRevOverhang(m) ==
  IF m.rev_pos < 0 THEN m
  ELSE
    LET sl == m.slot
        sym == chrmap_complement(sl.rev_sequence[m.rev_pos + 1])
        qual == sl.rev_quality[m.rev_pos + 1]
        ee == q2p(qual)
    IN MergeRevOverhang(
         [ m EXCEPT
             !.slot = [ sl EXCEPT
                          !.merged_sequence = Poke(sl.merged_sequence, m.merged_pos, sym),
                          !.merged_quality = Poke(sl.merged_quality, m.merged_pos, qual),
                          !.ee_merged = sl.ee_merged + ee,
                          !.ee_rev = sl.ee_rev + ee ],
             !.rev_pos = m.rev_pos - 1,
             !.merged_pos = m.merged_pos + 1 ])

\* where the three loops of merge leave the positions and the slot
MergeZones(slot, cfg) ==
  LET fwd_5prime_overhang ==
        IF slot.fwd_trunc > slot.offset THEN slot.fwd_trunc - slot.offset ELSE 0
      reset == [ slot EXCEPT !.ee_merged = 0, !.ee_fwd = 0, !.ee_rev = 0,
                             !.fwd_errors = 0, !.rev_errors = 0 ]
      rev_3prime_overhang ==
        IF slot.offset > slot.fwd_trunc THEN slot.offset - slot.fwd_trunc ELSE 0
  IN Let(MergeFwdOverhang([ slot |-> reset, fwd_pos |-> 0, rev_pos |-> 0,
                            merged_pos |-> 0 ],
                          fwd_5prime_overhang),
         LAMBDA m1 :
     Let(MergeOverlap([ m1 EXCEPT
                          !.rev_pos = slot.rev_trunc - 1 - rev_3prime_overhang ],
                      cfg),
         LAMBDA m2 :
     Let(MergeRevOverhang(m2),
         LAMBDA m3 :
           [ fwd_overhang |-> m1.merged_pos,
             overlap |-> m2.merged_pos - m1.merged_pos,
             rev_overhang |-> m3.merged_pos - m2.merged_pos,
             merged_pos |-> m3.merged_pos,
             slot |-> m3.slot ])))

\* a merge that accepts whatever the expected error
MergeAcceptsAlways(cfg, ee_merged) == TRUE

\* the decision of merge on the merged expected error
MergeAccepts(cfg, ee_merged) == ee_merged <= cfg.maxee

\* a merge that does not terminate the merged buffers
merge_unterminated(slot, cfg) ==
  Let(MergeZones(slot, cfg),
      LAMBDA z :
        LET sl == [ z.slot EXCEPT !.merged_length = z.merged_pos ]
        IN IF MergeAccepts(cfg, sl.ee_merged)
           THEN [ sl EXCEPT !.reason = "ok", !.merged = TRUE ]
           ELSE [ sl EXCEPT !.reason = "maxee" ])

merge(slot, cfg) ==
  Let(MergeZones(slot, cfg),
      LAMBDA z :
        LET mergelen == z.merged_pos
            sl == [ z.slot EXCEPT
                      !.merged_length = mergelen,
                      !.merged_sequence = Poke(z.slot.merged_sequence, mergelen, NUL),
                      !.merged_quality = Poke(z.slot.merged_quality, mergelen, QNUL) ]
        IN IF MergeAccepts(cfg, sl.ee_merged)
           THEN [ sl EXCEPT !.reason = "ok", !.merged = TRUE ]
           ELSE [ sl EXCEPT !.reason = "maxee" ])

(***************************************************************************)
(* process: the checks on one pair, in the order of the code.  The result  *)
(* is the slot as process leaves it, or fatal when get_qual exits.         *)
(***************************************************************************)

\* the two raw length checks: the second is made whatever the first found
TooShort(slot, cfg) ==
  slot.fwd_length < cfg.minlen \/ slot.rev_length < cfg.minlen

TooLong(slot, cfg) ==
  slot.fwd_length > cfg.maxlen \/ slot.rev_length > cfg.maxlen

LengthCheck(slot, cfg) ==
  LET s1 == IF TooShort(slot, cfg) THEN [ slot EXCEPT !.reason = "minlen" ] ELSE slot
      s2 == IF TooLong(slot, cfg) THEN [ s1 EXCEPT !.reason = "maxlen" ] ELSE s1
  IN [ slot |-> s2, skip |-> TooShort(slot, cfg) \/ TooLong(slot, cfg) ]

\* truncation of the forward read by quality
TruncFwd(c, cfg) ==
  LET scan == IF c.skip THEN [ fatal |-> FALSE, trunc |-> c.slot.fwd_length ]
              ELSE TruncScan(cfg, c.slot.fwd_quality, 0, c.slot.fwd_length)
      short == (~ c.skip) /\ scan.trunc < cfg.minlen
  IN [ slot |-> [ c.slot EXCEPT !.fwd_trunc = scan.trunc,
                                !.reason = IF short THEN "minlen" ELSE @ ],
       skip |-> c.skip \/ short,
       fatal |-> scan.fatal ]

\* truncation of the reverse read by quality
TruncRev(c, cfg) ==
  LET scan == IF c.skip THEN [ fatal |-> FALSE, trunc |-> c.slot.rev_length ]
              ELSE TruncScan(cfg, c.slot.rev_quality, 0, c.slot.rev_length)
      short == (~ c.skip) /\ scan.trunc < cfg.minlen
  IN [ slot |-> [ c.slot EXCEPT !.rev_trunc = scan.trunc,
                                !.reason = IF short THEN "minlen" ELSE @ ],
       skip |-> c.skip \/ short,
       fatal |-> scan.fatal ]

\* the count and recoding of the N's of the forward, then the reverse read
CountNsFwd(c, cfg) ==
  IF c.skip THEN c
  ELSE LET many == NCount(c.slot.fwd_sequence, c.slot.fwd_trunc) > cfg.maxns
       IN [ slot |-> [ c.slot EXCEPT
                         !.fwd_quality = RecodeN(cfg, c.slot.fwd_sequence,
                                                 c.slot.fwd_quality, c.slot.fwd_trunc),
                         !.reason = IF many THEN "maxns" ELSE @ ],
            skip |-> many ]

CountNsRev(c, cfg) ==
  IF c.skip THEN c
  ELSE LET many == NCount(c.slot.rev_sequence, c.slot.rev_trunc) > cfg.maxns
       IN [ slot |-> [ c.slot EXCEPT
                         !.rev_quality = RecodeN(cfg, c.slot.rev_sequence,
                                                 c.slot.rev_quality, c.slot.rev_trunc),
                         !.reason = IF many THEN "maxns" ELSE @ ],
            skip |-> many ]

\* process up to the call of optimize: the slot, whether a check has set
\* skip, and whether get_qual has ended the program
BeforeOptimize(slot, cfg) ==
  Let(TruncFwd(LengthCheck([ slot EXCEPT !.merged = FALSE ], cfg), cfg),
      LAMBDA c2 :
  Let(TruncRev([ slot |-> c2.slot, skip |-> c2.skip ], cfg),
      LAMBDA c3 :
  Let(CountNsRev(CountNsFwd([ slot |-> c3.slot, skip |-> c3.skip ], cfg), cfg),
      LAMBDA c5 :
        [ slot |-> c5.slot, skip |-> c5.skip, fatal |-> c2.fatal \/ c3.fatal ])))

process(slot, cfg) ==
  Let(BeforeOptimize(slot, cfg),
      LAMBDA c :
        IF c.fatal THEN [ fatal |-> TRUE, slot |-> slot ]
        ELSE
  Let(IF c.skip THEN [ slot |-> c.slot, offset |-> 0 ] ELSE optimize(c.slot, cfg),
      LAMBDA o :
  Let([ o.slot EXCEPT !.offset = o.offset ],
      LAMBDA s6 :
  Let(IF s6.offset > 0 THEN merge(s6, cfg) ELSE s6,
      LAMBDA s7 :
        [ fatal |-> FALSE, slot |-> [ s7 EXCEPT !.state = "processed" ] ]))))

(***************************************************************************)
(* keep, discard and keep_or_discard: the run accumulators and the record  *)
(* handed to the writer.  a is the record of the accumulators merged,      *)
(* notmerged, failed (the failed_* counters, by Reason) and out_log (the   *)
(* calls of the writer, in order).                                         *)
(***************************************************************************)

\* the first len symbols of a buffer, as fastq_print_general prints them
Printed(buf, len) == SubSeq(buf, 1, len)

\* the record keep hands to the writer; the expected error is in units of
\* 1/ProbScale
merged_record(slot) ==
  [ sequence |-> Printed(slot.merged_sequence, slot.merged_length),
    quality |-> Printed(slot.merged_quality, slot.merged_length),
    ee |-> slot.ee_merged ]

keep(a, slot) ==
  [ a EXCEPT
      !.merged = a.merged + 1,
      !.out_log = Append(a.out_log,
                         [ kind |-> "merged", pair_no |-> slot.pair_no,
                           ordinal |-> a.merged + 1, reason |-> slot.reason,
                           length |-> slot.merged_length,
                           written |-> merged_record(slot) ]) ]

\* a switch without the case of Reason nokmers
CountFailureNoKmers(failed, reason) ==
  IF reason \in { "ok", "nokmers" } THEN failed ELSE [ failed EXCEPT ![reason] = @ + 1 ]

\* the switch of discard: Reason ok counts no failure
CountFailure(failed, reason) ==
  IF reason = "ok" THEN failed ELSE [ failed EXCEPT ![reason] = @ + 1 ]

\* a discard that prints the reads up to their truncation points
notmerged_records_truncated(slot) ==
  [ fwd |-> [ sequence |-> Printed(slot.fwd_sequence, slot.fwd_trunc),
              quality |-> Printed(slot.fwd_quality, slot.fwd_trunc) ],
    rev |-> [ sequence |-> Printed(slot.rev_sequence, slot.rev_trunc),
              quality |-> Printed(slot.rev_quality, slot.rev_trunc) ],
    ee |-> 0 - ProbScale ]

\* the two records discard hands to the writer, with expected error -1.0
notmerged_records(slot) ==
  [ fwd |-> [ sequence |-> Printed(slot.fwd_sequence, slot.fwd_length),
              quality |-> Printed(slot.fwd_quality, slot.fwd_length) ],
    rev |-> [ sequence |-> Printed(slot.rev_sequence, slot.rev_length),
              quality |-> Printed(slot.rev_quality, slot.rev_length) ],
    ee |-> 0 - ProbScale ]

discard(a, slot) ==
  [ a EXCEPT
      !.failed = CountFailure(a.failed, slot.reason),
      !.notmerged = a.notmerged + 1,
      !.out_log = Append(a.out_log,
                         [ kind |-> "notmerged", pair_no |-> slot.pair_no,
                           ordinal |-> a.notmerged + 1, reason |-> slot.reason,
                           length |-> slot.fwd_length,
                           written |-> notmerged_records(slot) ]) ]

\* a writer that drops the pairs that were not merged
keep_or_drop(a, slot) ==
  IF slot.merged THEN keep(a, slot) ELSE a

keep_or_discard(a, slot) ==
  IF slot.merged THEN keep(a, slot) ELSE discard(a, slot)

(***************************************************************************)
(* Configurations.  Lenient is the configuration of the pipeline runs; the *)
(* others set the limits low enough for reads of up to MaxSeqLen bases to  *)
(* meet them.  maxee is in units of 1/ProbScale.                           *)
(***************************************************************************)

Lenient ==
  [ minlen |-> 1, maxlen |-> 100, truncqual |-> 0 - 1, maxns |-> 100,
    minovlen |-> 5, maxdiffs |-> 10, maxdiffpct |-> 100,
    allowmergestagger |-> TRUE, minmergelen |-> 0, maxmergelen |-> 100,
    maxee |-> 100 * ProbScale,
    ascii |-> 33, qmin |-> 0, qmax |-> 41, qminout |-> 0, qmaxout |-> 41 ]

Strict ==
  [ Lenient EXCEPT !.minlen = 3, !.maxlen = 7, !.truncqual = 2, !.maxns = 0,
                   !.maxdiffs = 0, !.allowmergestagger = FALSE,
                   !.minmergelen = 6, !.maxmergelen = 8, !.maxee = 250 ]

LongOverlap ==
  [ Lenient EXCEPT !.minovlen = 10, !.maxdiffpct = 10,
                   !.allowmergestagger = FALSE,
                   !.qminout = 2, !.qmaxout = 40 ]

\* Lenient with fastq_qmaxout below the quality of the input
LowOutput == [ Lenient EXCEPT !.qmaxout = 30 ]

Configs == { Lenient, Strict, LongOverlap, LowOutput }

(***************************************************************************)
(* Inputs of the per-pair runs: a forward read A^a C^b (b at most 2) and a *)
(* reverse read whose reverse complement is A^c C^d (d at most 4), of 2    *)
(* bases (shorter than a k-mer) or of k to MaxSeqLen bases, all at quality *)
(* Q40, with at most one position (the first, the middle or the last) of   *)
(* one read made special: its base an N, its base substituted, its quality *)
(* Q2, Q0 or Q45 (out of range), or its base substituted at quality Q2,    *)
(* in the forward read also with the reverse base it meets at quality Q2;  *)
(* or with the whole reverse read at quality Q2.                           *)
(***************************************************************************)

Block(a, b) == [ i \in 1..(a + b) |-> IF i <= a THEN "A" ELSE "C" ]

ReverseComplement(seq) ==
  [ i \in 1..Len(seq) |-> chrmap_complement(seq[Len(seq) + 1 - i]) ]

ReadLengths == { 2 } \cup (k..MaxSeqLen)

FwdShapes ==
  { q \in (0..MaxSeqLen) \X (0..2) : q[1] + q[2] \in ReadLengths }

RevShapes ==
  { q \in (0..MaxSeqLen) \X (0..4) : q[1] + q[2] \in ReadLengths }

HighQuality(n) == [ i \in 1..n |-> 73 ]

PlainRecord(f, r) ==
  [ fwd_sequence |-> f, rev_sequence |-> r,
    fwd_quality |-> HighQuality(Len(f)), rev_quality |-> HighQuality(Len(r)) ]

Substituted(c) ==
  CASE c = "A" -> "C"
    [] c = "C" -> "A"
    [] c = "G" -> "T"
    [] c = "T" -> "G"
    [] OTHER -> c

\* the position of the reverse read that the alignment of the blocks sets
\* against forward position p, or 0 when there is none
AlignedRev(rec, p) ==
  LET a == Cardinality({ i \in DOMAIN rec.fwd_sequence : rec.fwd_sequence[i] = "A" })
      c == Cardinality({ i \in DOMAIN rec.rev_sequence : rec.rev_sequence[i] = "T" })
      r == Len(rec.rev_sequence) + 1 - (p - a + c)
  IN IF r \in DOMAIN rec.rev_sequence THEN r ELSE 0

Special(rec, sp) ==
  CASE sp.side = "none" -> rec
    [] sp.side = "rev" /\ sp.kind = "LowQ" ->
         [ rec EXCEPT !.rev_quality = [ i \in DOMAIN rec.rev_quality |-> 35 ] ]
    [] sp.side = "fwd" /\ sp.kind = "SubTie" ->
         IF AlignedRev(rec, sp.pos) = 0 THEN rec
         ELSE [ rec EXCEPT !.fwd_sequence[sp.pos] = Substituted(@),
                           !.fwd_quality[sp.pos] = 35,
                           !.rev_quality[AlignedRev(rec, sp.pos)] = 35 ]
    [] sp.side = "fwd" /\ sp.kind = "N" -> [ rec EXCEPT !.fwd_sequence[sp.pos] = "N" ]
    [] sp.side = "fwd" /\ sp.kind = "Sub" ->
         [ rec EXCEPT !.fwd_sequence[sp.pos] = Substituted(@) ]
    [] sp.side = "fwd" /\ sp.kind = "Q2" -> [ rec EXCEPT !.fwd_quality[sp.pos] = 35 ]
    [] sp.side = "fwd" /\ sp.kind = "Q45" -> [ rec EXCEPT !.fwd_quality[sp.pos] = 78 ]
    [] sp.side = "fwd" /\ sp.kind = "Q0" -> [ rec EXCEPT !.fwd_quality[sp.pos] = 33 ]
    [] sp.side = "fwd" /\ sp.kind = "SubQ2" ->
         [ rec EXCEPT !.fwd_sequence[sp.pos] = Substituted(@),
                      !.fwd_quality[sp.pos] = 35 ]
    [] sp.side = "rev" /\ sp.kind = "N" -> [ rec EXCEPT !.rev_sequence[sp.pos] = "N" ]
    [] sp.side = "rev" /\ sp.kind = "Sub" ->
         [ rec EXCEPT !.rev_sequence[sp.pos] = Substituted(@) ]
    [] sp.side = "rev" /\ sp.kind = "Q2" -> [ rec EXCEPT !.rev_quality[sp.pos] = 35 ]
    [] sp.side = "rev" /\ sp.kind = "Q45" -> [ rec EXCEPT !.rev_quality[sp.pos] = 78 ]
    [] sp.side = "rev" /\ sp.kind = "Q0" -> [ rec EXCEPT !.rev_quality[sp.pos] = 33 ]
    [] sp.side = "rev" /\ sp.kind = "SubQ2" ->
         [ rec EXCEPT !.rev_sequence[sp.pos] = Substituted(@),
                      !.rev_quality[sp.pos] = 35 ]

SpecialKinds == { "N", "Sub", "Q2", "Q45", "Q0", "SubQ2" }

SpecialPositions(n) == { 1, (n + 1) \div 2, n }

Specials(fl, rl) ==
  { [ side |-> "none", pos |-> 0, kind |-> "none" ] } \cup
  [ side : { "fwd" }, pos : SpecialPositions(fl), kind : SpecialKinds ] \cup
  [ side : { "rev" }, pos : SpecialPositions(rl), kind : SpecialKinds ] \cup
  [ side : { "fwd" }, pos : SpecialPositions(fl), kind : { "SubTie" } ] \cup
  { [ side |-> "rev", pos |-> 1, kind |-> "LowQ" ] }

\* what a reused slot may hold from the pair before: nothing (a new slot),
\* or the leftovers of a merged pair
StaleSlots ==
  { EmptySlot,
    process(read_pair(EmptySlot,
                      PlainRecord(Block(4, 2), ReverseComplement(Block(3, 2))), 0),
            Lenient).slot }

(***************************************************************************)
(* State                                                                   *)
(***************************************************************************)

VARIABLES
  cfg,               \* the configuration of the run
  fatal,             \* "none", or the fatal error that ended the process
  total,             \* pairs read so far
  merged,            \* pairs kept
  notmerged,         \* pairs discarded
  failed,            \* the failed_* counters, by Reason
  out_log,           \* the calls of the writer, in order
  \* the per-pair run: one slot taken through read_pair, process and
  \* keep_or_discard
  ppc,               \* "read", "process", "write", "done"; "off" in a pipeline run
  pinput,            \* the pair of records the readers deliver
  pslot,             \* the slot
  palign,            \* the alignment optimize found for the pair, if it ran
  \* the pipeline run: fastq_mergepairs, pair_all and the pair_workers
  opt_threads,       \* the number of workers; 0 in a per-pair run
  nfwd,              \* records in the forward file
  nrev,              \* records in the reverse file
  fwd_pos,           \* records consumed from fastq_fwd
  rev_pos,           \* records consumed from fastq_rev
  chunks,            \* the ring: index -> [ size, state, merge_data ]
  chunk_read_next,
  chunk_process_next,
  chunk_write_next,
  finished_reading,
  finished_all,
  pairs_read,
  pairs_written,
  mutex_chunks,      \* the worker holding the mutex, or Unlocked
  pc,                \* worker -> where it is in pair_worker
  chunk_current,     \* worker -> the chunk it claimed in chunk_perform_process
  idx,               \* worker -> r of chunk_perform_read, i of the other loops
  mainpc,            \* where the main thread is in fastq_mergepairs
  reported           \* print_stats has run

pairvars == << ppc, pinput, pslot, palign >>

accvars == << total, merged, notmerged, failed, out_log >>

filevars == << opt_threads, nfwd, nrev, fwd_pos, rev_pos >>

ringvars ==
  << chunks, chunk_read_next, chunk_process_next, chunk_write_next,
     finished_reading, finished_all, pairs_read, pairs_written >>

threadvars == << mutex_chunks, pc, chunk_current, idx, mainpc, reported >>

vars == << cfg, fatal, accvars, pairvars, filevars, ringvars, threadvars >>

Accumulators ==
  [ merged |-> merged, notmerged |-> notmerged, failed |-> failed,
    out_log |-> out_log ]

SetAccumulators(a) ==
  /\ merged' = a.merged
  /\ notmerged' = a.notmerged
  /\ failed' = a.failed
  /\ out_log' = a.out_log

NoAlignment ==
  [ kmers |-> 0, hits |-> 0, best_score |-> 0, best_i |-> 0, best_diffs |-> 0,
    ran |-> FALSE ]

AccInit ==
  /\ fatal = "none"
  /\ total = 0
  /\ merged = 0
  /\ notmerged = 0
  /\ failed = [ r \in Reasons |-> 0 ]
  /\ out_log = << >>

Unlocked == 0 - 1

\* a per-pair run has no files, no ring and no threads
PipelineOff ==
  /\ opt_threads = 0 /\ nfwd = 0 /\ nrev = 0 /\ fwd_pos = 0 /\ rev_pos = 0
  /\ chunks = << >>
  /\ chunk_read_next = 0 /\ chunk_process_next = 0 /\ chunk_write_next = 0
  /\ finished_reading = FALSE /\ finished_all = FALSE
  /\ pairs_read = 0 /\ pairs_written = 0
  /\ mutex_chunks = Unlocked
  /\ pc = << >> /\ chunk_current = << >> /\ idx = << >>
  /\ mainpc = "off" /\ reported = FALSE

(***************************************************************************)
(* The per-pair run                                                        *)
(***************************************************************************)

PairInit ==
  /\ cfg \in Configs
  /\ AccInit
  /\ ppc = "read"
  /\ pslot \in StaleSlots
  /\ \E f \in FwdShapes, rc \in RevShapes :
        \E sp \in Specials(f[1] + f[2], rc[1] + rc[2]) :
           pinput = Special(PlainRecord(Block(f[1], f[2]),
                                        ReverseComplement(Block(rc[1], rc[2]))),
                            sp)
  /\ palign = NoAlignment
  /\ PipelineOff

\* read_pair into the slot
PairRead ==
  /\ ppc = "read"
  /\ fatal = "none"
  /\ pslot' = read_pair(pslot, pinput, total)
  /\ total' = total + 1
  /\ ppc' = "process"
  /\ UNCHANGED << cfg, fatal, merged, notmerged, failed, out_log, pinput, palign >>
  /\ UNCHANGED << filevars, ringvars, threadvars >>

\* process on the slot; get_qual may end the process
PairProcess ==
  /\ ppc = "process"
  /\ fatal = "none"
  /\ \E r \in { process(pslot, cfg) }, b \in { BeforeOptimize(pslot, cfg) } :
        IF r.fatal
        THEN /\ fatal' = "quality"
             /\ UNCHANGED << pslot, palign, ppc >>
        ELSE /\ pslot' = r.slot
             /\ palign' = IF b.skip THEN NoAlignment
                          ELSE [ ran |-> TRUE ] @@ Alignment(b.slot, cfg)
             /\ ppc' = "write"
             /\ UNCHANGED fatal
  /\ UNCHANGED << cfg, accvars, pinput, filevars, ringvars, threadvars >>

\* keep_or_discard on the processed slot
PairWrite ==
  /\ ppc = "write"
  /\ fatal = "none"
  /\ SetAccumulators(keep_or_discard(Accumulators, pslot))
  /\ ppc' = "done"
  /\ UNCHANGED << cfg, fatal, total, pinput, pslot, palign >>
  /\ UNCHANGED << filevars, ringvars, threadvars >>

PairNext == PairRead \/ PairProcess \/ PairWrite

PairSpec == PairInit /\ [][PairNext]_vars

(***************************************************************************)
(* The pipeline run: fastq_mergepairs starts pair_all, whose workers take  *)
(* the chunks of the ring through read, process and write.                 *)
(***************************************************************************)

Threads == 0..(opt_threads - 1)

chunk_count == chunk_factor * opt_threads

\* the records of the two files: record i of the forward file pairs with
\* record i of the reverse file
PairPool ==
  << PlainRecord(Block(4, 2), ReverseComplement(Block(3, 2))),
     PlainRecord(Block(2, 0), ReverseComplement(Block(2, 0))),
     PlainRecord(Block(5, 1), ReverseComplement(Block(4, 3))) >>

InputPair(i) == PairPool[((i - 1) % Len(PairPool)) + 1]

\* the ring as pair_all prepares it
EmptyRing(n) ==
  [ c \in 0..(n - 1) |->
      [ size |-> 0, state |-> "empty",
        merge_data |-> [ j \in 0..(chunk_size - 1) |-> EmptySlot ] ] ]

\* the role pair_worker gives to worker t
\* a pair_worker with the branches of the first and the last worker exchanged
RoleExchanged(t) ==
  IF opt_threads = 1 THEN "all"
  ELSE IF t = 0 THEN "writer"
  ELSE IF t = opt_threads - 1 THEN "reader"
  ELSE "processor"

Role(t) ==
  IF opt_threads = 1 THEN "all"
  ELSE IF t = 0 THEN "reader"
  ELSE IF t = opt_threads - 1 THEN "writer"
  ELSE "processor"

\* a pair_worker whose processors also write
StagesProcessorWrites(role) ==
  CASE role = "all" -> << "read", "process", "write" >>
    [] role = "reader" -> << "read", "process" >>
    [] role = "writer" -> << "write", "process" >>
    [] role = "processor" -> << "process", "write" >>

\* the stages a role performs in one iteration of its loop, in order
Stages(role) ==
  CASE role = "all" -> << "read", "process", "write" >>
    [] role = "reader" -> << "read", "process" >>
    [] role = "writer" -> << "write", "process" >>
    [] role = "processor" -> << "process" >>

\* where worker t goes after a stage
AfterStage(t, stage) ==
  LET st == Stages(Role(t))
      n == CHOOSE j \in 1..Len(st) : st[j] = stage
  IN IF n < Len(st) THEN st[n + 1] ELSE "loop"

\* a reader that does not wait for the writer to drain the chunk
ReadReadyAny == ~finished_reading

\* the test of the while loop of chunk_perform_read
ReadReady == (~finished_reading) /\ chunks[chunk_read_next].state = "empty"

ProcessClaimable(state) == state = "filled"

ProcessReady == ProcessClaimable(chunks[chunk_process_next].state)

\* a writer that does not wait for the processor of the chunk
WriteReadyEarly == chunks[chunk_write_next].state \in { "inprogress", "processed" }

WriteReady == chunks[chunk_write_next].state = "processed"

\* the test that sets finished_all, with the comparison turned round
AllWrittenTurned(written, read) == written <= read

\* pairs_written >= pairs_read, the test that sets finished_all
AllWritten(written, read) == written >= read

\* a run that does not look at the reverse file after pair_all
MoreReverseIgnored == FALSE

\* fastq_next on the reverse file finds one more record
MoreReverse == rev_pos < nrev

\* wait loops that look only at the process cursor
WaitOverProcessOnly(t) ==
  CASE Role(t) = "reader" -> finished_all \/ ProcessReady
    [] Role(t) = "writer" -> finished_all \/ ProcessReady
    [] Role(t) = "processor" -> finished_all \/ ProcessReady
    [] Role(t) = "all" -> TRUE

\* the condition that ends the cond_wait loop of worker t
WaitOver(t) ==
  CASE Role(t) = "reader" -> finished_all \/ ProcessReady \/ ReadReady
    [] Role(t) = "writer" -> finished_all \/ ProcessReady \/ WriteReady
    [] Role(t) = "processor" -> finished_all \/ ProcessReady
    [] Role(t) = "all" -> TRUE

\* a broadcast that wakes nobody
BroadcastLost(p) == p

\* a broadcast after which cond_wait returns without the mutex
BroadcastUnlocked(p) ==
  [ t \in DOMAIN p |-> IF p[t] = "waiting" THEN "wait" ELSE p[t] ]

\* xpthread_cond_broadcast: every worker blocked in cond_wait is woken
Broadcast(p) ==
  [ t \in DOMAIN p |-> IF p[t] = "waiting" THEN "woken" ELSE p[t] ]

Init ==
  /\ cfg = Lenient
  /\ AccInit
  /\ ppc = "off"
  /\ pinput = PairPool[1]
  /\ pslot = EmptySlot
  /\ palign = NoAlignment
  /\ opt_threads \in 1..MaxThreads
  /\ nfwd \in 0..MaxPairs
  /\ nrev \in { n \in 0..MaxPairs : n - nfwd \in { 0 - 1, 0, 1 } }
  /\ fwd_pos = 0
  /\ rev_pos = 0
  /\ chunks = EmptyRing(chunk_count)
  /\ chunk_read_next = 0
  /\ chunk_process_next = 0
  /\ chunk_write_next = 0
  /\ finished_reading = FALSE
  /\ finished_all = FALSE
  /\ pairs_read = 0
  /\ pairs_written = 0
  /\ mutex_chunks = Unlocked
  /\ pc = [ t \in Threads |-> "idle" ]
  /\ chunk_current = [ t \in Threads |-> 0 ]
  /\ idx = [ t \in Threads |-> 0 ]
  /\ mainpc = "start"
  /\ reported = FALSE

\* fastq_mergepairs up to pair_all: an empty forward file skips pair_all,
\* otherwise pair_all creates the workers
pair_all_start ==
  /\ mainpc = "start"
  /\ fatal = "none"
  /\ IF nfwd = 0
     THEN /\ mainpc' = "after"
          /\ UNCHANGED pc
     ELSE /\ mainpc' = "join"
          /\ pc' = [ t \in Threads |-> "start" ]
  /\ UNCHANGED << cfg, fatal, accvars, pairvars, filevars, ringvars >>
  /\ UNCHANGED << mutex_chunks, chunk_current, idx, reported >>

\* a pair_all that goes on when the first worker has returned
pair_all_join_first ==
  /\ mainpc = "join"
  /\ fatal = "none"
  /\ pc[0] = "done"
  /\ mainpc' = "after"
  /\ UNCHANGED << cfg, fatal, accvars, pairvars, filevars, ringvars >>
  /\ UNCHANGED << mutex_chunks, pc, chunk_current, idx, reported >>

\* pair_all joins the workers
pair_all_join ==
  /\ mainpc = "join"
  /\ fatal = "none"
  /\ \A t \in Threads : pc[t] = "done"
  /\ mainpc' = "after"
  /\ UNCHANGED << cfg, fatal, accvars, pairvars, filevars, ringvars >>
  /\ UNCHANGED << mutex_chunks, pc, chunk_current, idx, reported >>

\* fastq_mergepairs after pair_all: one more record of the reverse file is
\* fatal, otherwise print_stats
fastq_mergepairs_finish ==
  /\ mainpc = "after"
  /\ fatal = "none"
  /\ IF MoreReverse
     THEN /\ fatal' = "more_rev"
          /\ rev_pos' = rev_pos + 1
          /\ UNCHANGED << mainpc, reported >>
     ELSE /\ reported' = TRUE
          /\ mainpc' = "done"
          /\ UNCHANGED << fatal, rev_pos >>
  /\ UNCHANGED << cfg, accvars, pairvars, ringvars >>
  /\ UNCHANGED << opt_threads, nfwd, nrev, fwd_pos >>
  /\ UNCHANGED << mutex_chunks, pc, chunk_current, idx >>

\* where a worker continues once it has the mutex
AfterLock(p) ==
  CASE p = "start" -> "loop"
    [] p = "woken" -> "wait"
    [] p = "read_lock" -> "read_post"
    [] p = "process_lock" -> "process_post"
    [] p = "write_lock" -> "write_post"

\* xpthread_mutex_lock, and the re-acquisition that ends xpthread_cond_wait
worker_lock(t) ==
  /\ pc[t] \in { "start", "woken", "read_lock", "process_lock", "write_lock" }
  /\ fatal = "none"
  /\ mutex_chunks = Unlocked
  /\ mutex_chunks' = t
  /\ pc' = [ pc EXCEPT ![t] = AfterLock(pc[t]) ]
  /\ UNCHANGED << cfg, fatal, accvars, pairvars, filevars, ringvars >>
  /\ UNCHANGED << chunk_current, idx, mainpc, reported >>

\* while (! finished_all), and the unlock after the loop
worker_loop(t) ==
  /\ pc[t] = "loop"
  /\ fatal = "none"
  /\ IF finished_all
     THEN /\ mutex_chunks' = Unlocked
          /\ pc' = [ pc EXCEPT ![t] = "done" ]
     ELSE /\ pc' = [ pc EXCEPT ![t] = IF opt_threads = 1 THEN "read" ELSE "wait" ]
          /\ UNCHANGED mutex_chunks
  /\ UNCHANGED << cfg, fatal, accvars, pairvars, filevars, ringvars >>
  /\ UNCHANGED << chunk_current, idx, mainpc, reported >>

\* the wait loop of a worker with a role: leave it, or xpthread_cond_wait
worker_wait(t) ==
  /\ pc[t] = "wait"
  /\ fatal = "none"
  /\ IF WaitOver(t)
     THEN /\ pc' = [ pc EXCEPT ![t] = Stages(Role(t))[1] ]
          /\ UNCHANGED mutex_chunks
     ELSE /\ pc' = [ pc EXCEPT ![t] = "waiting" ]
          /\ mutex_chunks' = Unlocked
  /\ UNCHANGED << cfg, fatal, accvars, pairvars, filevars, ringvars >>
  /\ UNCHANGED << chunk_current, idx, mainpc, reported >>

\* chunk_perform_read: the test of its while loop, and the unlock
read_test(t) ==
  /\ pc[t] = "read"
  /\ fatal = "none"
  /\ IF ReadReady
     THEN /\ mutex_chunks' = Unlocked
          /\ idx' = [ idx EXCEPT ![t] = 0 ]
          /\ pc' = [ pc EXCEPT ![t] = "reading" ]
     ELSE /\ pc' = [ pc EXCEPT ![t] = AfterStage(t, "read") ]
          /\ UNCHANGED << mutex_chunks, idx >>
  /\ UNCHANGED << cfg, fatal, accvars, pairvars, filevars, ringvars >>
  /\ UNCHANGED << chunk_current, mainpc, reported >>

\* one read_pair that finds a forward record: without a reverse record it
\* is fatal, otherwise it fills slot r
read_one(t) ==
  /\ pc[t] = "reading"
  /\ fatal = "none"
  /\ idx[t] < chunk_size
  /\ fwd_pos < nfwd
  /\ fwd_pos' = fwd_pos + 1
  /\ IF rev_pos >= nrev
     THEN /\ fatal' = "more_fwd"
          /\ UNCHANGED << rev_pos, chunks, total, idx >>
     ELSE /\ rev_pos' = rev_pos + 1
          /\ chunks' =
               [ chunks EXCEPT ![chunk_read_next].merge_data[idx[t]] =
                   read_pair(@, InputPair(fwd_pos + 1), total) ]
          /\ total' = total + 1
          /\ idx' = [ idx EXCEPT ![t] = @ + 1 ]
          /\ UNCHANGED fatal
  /\ UNCHANGED << cfg, merged, notmerged, failed, out_log, pairvars >>
  /\ UNCHANGED << opt_threads, nfwd, nrev >>
  /\ UNCHANGED << chunk_read_next, chunk_process_next, chunk_write_next,
                  finished_reading, finished_all, pairs_read, pairs_written >>
  /\ UNCHANGED << mutex_chunks, pc, chunk_current, mainpc, reported >>

\* the end of the inner loop: the chunk is full or read_pair found no
\* forward record; the size is stored
read_end(t) ==
  /\ pc[t] = "reading"
  /\ fatal = "none"
  /\ idx[t] >= chunk_size \/ fwd_pos >= nfwd
  /\ chunks' = [ chunks EXCEPT ![chunk_read_next].size = idx[t] ]
  /\ pc' = [ pc EXCEPT ![t] = "read_lock" ]
  /\ UNCHANGED << cfg, fatal, accvars, pairvars, filevars >>
  /\ UNCHANGED << chunk_read_next, chunk_process_next, chunk_write_next,
                  finished_reading, finished_all, pairs_read, pairs_written >>
  /\ UNCHANGED << mutex_chunks, chunk_current, idx, mainpc, reported >>

\* chunk_perform_read after the lock: the counters, the chunk's state, the
\* cursor, the flags and the broadcast
read_post(t) ==
  /\ pc[t] = "read_post"
  /\ fatal = "none"
  /\ pairs_read' = pairs_read + idx[t]
  /\ IF idx[t] > 0
     THEN /\ chunks' = [ chunks EXCEPT ![chunk_read_next].state = "filled" ]
          /\ chunk_read_next' = (chunk_read_next + 1) % chunk_count
     ELSE UNCHANGED << chunks, chunk_read_next >>
  /\ IF idx[t] < chunk_size
     THEN /\ finished_reading' = TRUE
          /\ finished_all' = (finished_all \/ AllWritten(pairs_written, pairs_read'))
     ELSE UNCHANGED << finished_reading, finished_all >>
  /\ pc' = [ Broadcast(pc) EXCEPT ![t] = "read" ]
  /\ UNCHANGED << cfg, fatal, accvars, pairvars, filevars >>
  /\ UNCHANGED << chunk_process_next, chunk_write_next, pairs_written >>
  /\ UNCHANGED << mutex_chunks, chunk_current, idx, mainpc, reported >>

\* a chunk_perform_process that keeps the mutex during the compute
process_test_locked(t) ==
  /\ pc[t] = "process"
  /\ fatal = "none"
  /\ chunk_current' = [ chunk_current EXCEPT ![t] = chunk_process_next ]
  /\ IF ProcessReady
     THEN /\ chunks' = [ chunks EXCEPT ![chunk_process_next].state = "inprogress" ]
          /\ chunk_process_next' = (chunk_process_next + 1) % chunk_count
          /\ idx' = [ idx EXCEPT ![t] = 0 ]
          /\ pc' = [ Broadcast(pc) EXCEPT ![t] = "processing" ]
          /\ UNCHANGED mutex_chunks
     ELSE /\ pc' = [ pc EXCEPT ![t] = AfterStage(t, "process") ]
          /\ UNCHANGED << chunks, chunk_process_next, mutex_chunks, idx >>
  /\ UNCHANGED << cfg, fatal, accvars, pairvars, filevars >>
  /\ UNCHANGED << chunk_read_next, chunk_write_next, finished_reading,
                  finished_all, pairs_read, pairs_written >>
  /\ UNCHANGED << mainpc, reported >>

\* chunk_perform_process: the test, and the claim of a filled chunk
process_test(t) ==
  /\ pc[t] = "process"
  /\ fatal = "none"
  /\ chunk_current' = [ chunk_current EXCEPT ![t] = chunk_process_next ]
  /\ IF ProcessReady
     THEN /\ chunks' = [ chunks EXCEPT ![chunk_process_next].state = "inprogress" ]
          /\ chunk_process_next' = (chunk_process_next + 1) % chunk_count
          /\ mutex_chunks' = Unlocked
          /\ idx' = [ idx EXCEPT ![t] = 0 ]
          /\ pc' = [ Broadcast(pc) EXCEPT ![t] = "processing" ]
     ELSE /\ pc' = [ pc EXCEPT ![t] = AfterStage(t, "process") ]
          /\ UNCHANGED << chunks, chunk_process_next, mutex_chunks, idx >>
  /\ UNCHANGED << cfg, fatal, accvars, pairvars, filevars >>
  /\ UNCHANGED << chunk_read_next, chunk_write_next, finished_reading,
                  finished_all, pairs_read, pairs_written >>
  /\ UNCHANGED << mainpc, reported >>

\* a worker that reads the shared cursor where the code reads its local copy
ClaimedChunkShared(t) == chunk_process_next

\* the chunk worker t works on between the claim and the hand-over: the
\* local chunk_current of chunk_perform_process
ClaimedChunk(t) == chunk_current[t]

\* process on one slot of the claimed chunk
process_one(t) ==
  /\ pc[t] = "processing"
  /\ fatal = "none"
  /\ idx[t] < chunks[ClaimedChunk(t)].size
  /\ \E r \in { process(chunks[ClaimedChunk(t)].merge_data[idx[t]], cfg) } :
        IF r.fatal
        THEN /\ fatal' = "quality"
             /\ UNCHANGED << chunks, idx >>
        ELSE /\ chunks' = [ chunks EXCEPT
                              ![ClaimedChunk(t)].merge_data[idx[t]] = r.slot ]
             /\ idx' = [ idx EXCEPT ![t] = @ + 1 ]
             /\ UNCHANGED fatal
  /\ UNCHANGED << cfg, accvars, pairvars, filevars >>
  /\ UNCHANGED << chunk_read_next, chunk_process_next, chunk_write_next,
                  finished_reading, finished_all, pairs_read, pairs_written >>
  /\ UNCHANGED << mutex_chunks, pc, chunk_current, mainpc, reported >>

\* the end of the loop over the claimed chunk
process_end(t) ==
  /\ pc[t] = "processing"
  /\ fatal = "none"
  /\ idx[t] >= chunks[ClaimedChunk(t)].size
  /\ pc' = [ pc EXCEPT ![t] = "process_lock" ]
  /\ UNCHANGED << cfg, fatal, accvars, pairvars, filevars, ringvars >>
  /\ UNCHANGED << mutex_chunks, chunk_current, idx, mainpc, reported >>

\* chunk_perform_process after the lock
process_post(t) ==
  /\ pc[t] = "process_post"
  /\ fatal = "none"
  /\ chunks' = [ chunks EXCEPT ![ClaimedChunk(t)].state = "processed" ]
  /\ pc' = [ Broadcast(pc) EXCEPT ![t] = AfterStage(t, "process") ]
  /\ UNCHANGED << cfg, fatal, accvars, pairvars, filevars >>
  /\ UNCHANGED << chunk_read_next, chunk_process_next, chunk_write_next,
                  finished_reading, finished_all, pairs_read, pairs_written >>
  /\ UNCHANGED << mutex_chunks, chunk_current, idx, mainpc, reported >>

\* chunk_perform_write: the test of its while loop, and the unlock
write_test(t) ==
  /\ pc[t] = "write"
  /\ fatal = "none"
  /\ IF WriteReady
     THEN /\ mutex_chunks' = Unlocked
          /\ idx' = [ idx EXCEPT ![t] = 0 ]
          /\ pc' = [ pc EXCEPT ![t] = "writing" ]
     ELSE /\ pc' = [ pc EXCEPT ![t] = AfterStage(t, "write") ]
          /\ UNCHANGED << mutex_chunks, idx >>
  /\ UNCHANGED << cfg, fatal, accvars, pairvars, filevars, ringvars >>
  /\ UNCHANGED << chunk_current, mainpc, reported >>

\* keep_or_discard on one slot of the chunk at the write cursor
write_one(t) ==
  /\ pc[t] = "writing"
  /\ fatal = "none"
  /\ idx[t] < chunks[chunk_write_next].size
  /\ SetAccumulators(keep_or_discard(Accumulators,
                                     chunks[chunk_write_next].merge_data[idx[t]]))
  /\ idx' = [ idx EXCEPT ![t] = @ + 1 ]
  /\ UNCHANGED << cfg, fatal, total, pairvars, filevars, ringvars >>
  /\ UNCHANGED << mutex_chunks, pc, chunk_current, mainpc, reported >>

\* the end of the loop over the chunk at the write cursor
write_end(t) ==
  /\ pc[t] = "writing"
  /\ fatal = "none"
  /\ idx[t] >= chunks[chunk_write_next].size
  /\ pc' = [ pc EXCEPT ![t] = "write_lock" ]
  /\ UNCHANGED << cfg, fatal, accvars, pairvars, filevars, ringvars >>
  /\ UNCHANGED << mutex_chunks, chunk_current, idx, mainpc, reported >>

\* a chunk_perform_write that leaves its cursor where it is
write_post_stay(t) ==
  /\ pc[t] = "write_post"
  /\ fatal = "none"
  /\ pairs_written' = pairs_written + chunks[chunk_write_next].size
  /\ chunks' = [ chunks EXCEPT ![chunk_write_next].state = "empty" ]
  /\ finished_all' = (finished_all \/ (finished_reading /\ AllWritten(pairs_written', pairs_read)))
  /\ pc' = [ Broadcast(pc) EXCEPT ![t] = "write" ]
  /\ UNCHANGED << cfg, fatal, accvars, pairvars, filevars >>
  /\ UNCHANGED << chunk_read_next, chunk_process_next, chunk_write_next,
                  finished_reading, pairs_read >>
  /\ UNCHANGED << mutex_chunks, chunk_current, idx, mainpc, reported >>

\* chunk_perform_write after the lock
write_post(t) ==
  /\ pc[t] = "write_post"
  /\ fatal = "none"
  /\ pairs_written' = pairs_written + chunks[chunk_write_next].size
  /\ chunks' = [ chunks EXCEPT ![chunk_write_next].state = "empty" ]
  /\ finished_all' = (finished_all \/ (finished_reading /\ AllWritten(pairs_written', pairs_read)))
  /\ chunk_write_next' = (chunk_write_next + 1) % chunk_count
  /\ pc' = [ Broadcast(pc) EXCEPT ![t] = "write" ]
  /\ UNCHANGED << cfg, fatal, accvars, pairvars, filevars >>
  /\ UNCHANGED << chunk_read_next, chunk_process_next, finished_reading, pairs_read >>
  /\ UNCHANGED << mutex_chunks, chunk_current, idx, mainpc, reported >>

pair_worker(t) ==
  \/ worker_lock(t)
  \/ worker_loop(t)
  \/ worker_wait(t)
  \/ read_test(t)
  \/ read_one(t)
  \/ read_end(t)
  \/ read_post(t)
  \/ process_test(t)
  \/ process_one(t)
  \/ process_end(t)
  \/ process_post(t)
  \/ write_test(t)
  \/ write_one(t)
  \/ write_end(t)
  \/ write_post(t)

Next ==
  \/ pair_all_start
  \/ pair_all_join
  \/ fastq_mergepairs_finish
  \/ \E t \in Threads : pair_worker(t)

Spec == Init /\ [][Next]_vars

\* the main thread
MainNext == pair_all_start \/ pair_all_join \/ fastq_mergepairs_finish

\* ENABLED << pair_worker(t) >>_vars: a worker can take a step unless it
\* is not created, blocked in cond_wait or returned, or stands before the
\* mutex while another worker holds it
WorkerEnabled(t) ==
  /\ fatal = "none"
  /\ pc[t] \notin { "idle", "waiting", "done" }
  /\ pc[t] \in { "start", "woken", "read_lock", "process_lock", "write_lock" }
       => mutex_chunks = Unlocked

\* a step of a worker: the workers run while the main thread is in
\* pair_all, between the creation of the workers and the join
WorkerStep == mainpc = "join" /\ mainpc' = "join"

\* fair scheduling: the main thread keeps running while it can take a
\* step, and so do the workers.  The condition on the workers is
\* WF_vars(\E t \in Threads : pair_worker(t)) with ENABLED written out.
FairSpec ==
  /\ Spec
  /\ WF_vars(MainNext)
  /\ \/ []<>(~ \E t \in Threads : WorkerEnabled(t))
     \/ []<><< WorkerStep >>_vars

(***************************************************************************)
(* Properties of the pipeline run                                          *)
(***************************************************************************)

\* the chunk whose slots worker t reads or writes, if any
Accessing(t) ==
  CASE pc[t] = "reading" -> { chunk_read_next }
    [] pc[t] = "processing" -> { chunk_current[t] }
    [] pc[t] = "writing" -> { chunk_write_next }
    [] OTHER -> { }

\* worker t has claimed chunk c for processing and not yet handed it on
Claimed(t, c) ==
  pc[t] \in { "processing", "process_lock", "process_post" } /\ chunk_current[t] = c

\* C1: for every thread count and interleaving, at most one worker at a
\* time reads or writes the slots of a chunk (the reader filling it, the
\* processor that claimed it, or the writer draining it), and no chunk is
\* claimed for processing by two workers.
C1_OneAccessorPerChunk ==
  \A c \in DOMAIN chunks :
    /\ Cardinality({ t \in Threads : c \in Accessing(t) }) <= 1
    /\ Cardinality({ t \in Threads : Claimed(t, c) }) <= 1
    /\ \A t \in Threads :
         c \in Accessing(t) =>
           chunks[c].state = (CASE pc[t] = "reading" -> "empty"
                                [] pc[t] = "processing" -> "inprogress"
                                [] pc[t] = "writing" -> "processed")

\* the reader, a processor and the writer at work at once, on three chunks
C1_Witness ==
  /\ opt_threads = 3
  /\ pc[0] = "reading" /\ pc[1] = "processing" /\ pc[2] = "writing"
  /\ idx[1] = 1 /\ idx[2] = 1

\* C2: in every reachable state pairs_written <= pairs_read, and when
\* finished_all is true pairs_written = pairs_read.
C2_WrittenWithinRead ==
  /\ pairs_written <= pairs_read
  /\ finished_all => pairs_written = pairs_read

\* a finished run of two workers that went round the ring
C2_Witness ==
  /\ finished_all
  /\ opt_threads = 2
  /\ pairs_written = MaxPairs

\* C3: every pair read is passed to keep or discard at most once, and when
\* the run completes without a fatal error every pair read has been passed
\* to one of them: merged + notmerged = total.
C3_EveryPairOnce ==
  /\ Len(out_log) = merged + notmerged
  /\ \A i, j \in DOMAIN out_log :
       i # j => out_log[i].pair_no # out_log[j].pair_no
  /\ \A i \in DOMAIN out_log : out_log[i].pair_no < total
  /\ mainpc = "done" =>
       /\ merged + notmerged = total
       /\ total = nfwd
       /\ { out_log[i].pair_no : i \in DOMAIN out_log } = 0..(total - 1)

\* a completed run with pairs of both outcomes, in reused slots
C3_Witness ==
  /\ mainpc = "done"
  /\ opt_threads = 1
  /\ total = MaxPairs
  /\ merged > 0
  /\ notmerged > 0

\* every worker that has not left its loop is blocked in cond_wait
AllWaiting ==
  /\ mainpc = "join"
  /\ fatal = "none"
  /\ \E t \in Threads : pc[t] # "done"
  /\ \A t \in Threads : pc[t] \in { "waiting", "done" }

Outcome(slot) ==
  [ reason |-> slot.reason, merged |-> slot.merged, offset |-> slot.offset,
    record |-> IF slot.merged
               THEN [ sequence |-> SubSeq(slot.merged_sequence, 1, slot.merged_length),
                      quality |-> SubSeq(slot.merged_quality, 1, slot.merged_length),
                      ee |-> slot.ee_merged ]
               ELSE << >> ]

\* process on each pair of the input, in a slot that held no pair before
FreshOutcome ==
  [ c \in Configs |->
      [ i \in 1..Len(PairPool) |->
          Outcome(process(read_pair(EmptySlot, PairPool[i], 0), c).slot) ] ]

\* the place in PairPool of the records of pair pair_no
PoolIndex(pair_no) == (pair_no % Len(PairPool)) + 1

\* C12: for the same configuration and the same two reads process yields
\* the same Reason, merged flag, offset and merged record, whatever the
\* slot held before, whichever chunk and worker handle the pair and
\* whatever the thread count: every processed slot and every call of the
\* writer agree with process on the pair in a new slot.
C12_Deterministic ==
  /\ \A c \in DOMAIN chunks :
       chunks[c].state = "processed" =>
         \A j \in 0..(chunks[c].size - 1) :
            Outcome(chunks[c].merge_data[j])
              = FreshOutcome[cfg][PoolIndex(chunks[c].merge_data[j].pair_no)]
  /\ \A n \in DOMAIN out_log :
       \E o \in { FreshOutcome[cfg][PoolIndex(out_log[n].pair_no)] } :
          /\ out_log[n].reason = o.reason
          /\ (out_log[n].kind = "merged") = o.merged
          /\ o.merged => out_log[n].length = Len(o.record.sequence)

\* the ring has gone round: a rejected pair is processed in the slot that
\* holds what the first pair, which was merged, left
C12_Witness ==
  /\ opt_threads = 1
  /\ chunks[0].state = "processed"
  /\ chunks[0].merge_data[0].pair_no = chunk_count * chunk_size
  /\ ~ chunks[0].merge_data[0].merged
  /\ chunks[0].merge_data[0].merged_length > 0

\* the change of the state of chunk c in a step, made by the worker that
\* holds the mutex: worker 0 is the reader, the last worker the writer
C17_Change(c) ==
  \/ chunks'[c].state = chunks[c].state
  \/ /\ chunks[c].state = "empty" /\ chunks'[c].state = "filled"
     /\ mutex_chunks = 0
  \/ /\ chunks[c].state = "filled" /\ chunks'[c].state = "inprogress"
     /\ mutex_chunks \in Threads
     /\ \A t \in Threads : ~ Claimed(t, c)
     /\ pc'[mutex_chunks] = "processing" /\ chunk_current'[mutex_chunks] = c
  \/ /\ chunks[c].state = "inprogress" /\ chunks'[c].state = "processed"
     /\ mutex_chunks \in Threads
     /\ Claimed(mutex_chunks, c)
  \/ /\ chunks[c].state = "processed" /\ chunks'[c].state = "empty"
     /\ mutex_chunks = opt_threads - 1

\* C17: in every interleaving each change of a chunk's state is empty to
\* filled by the reader, filled to inprogress by a processor that claims
\* the chunk, inprogress to processed by that same processor, or processed
\* to empty by the writer; no chunk skips a state or moves backwards, and
\* no worker in another role changes it.
C17_ChunkCycle ==
  [][ /\ DOMAIN chunks' = DOMAIN chunks
      /\ \A c \in DOMAIN chunks : C17_Change(c) ]_vars

\* three workers and three chunks at three points of the cycle, after the
\* first chunk has gone round
C17_Witness ==
  /\ opt_threads = 3
  /\ pairs_written = chunk_size
  /\ chunks[0].state = "empty"
  /\ chunks[1].state = "processed"
  /\ chunks[2].state = "inprogress"

\* the number of the first n calls of the writer that are of one kind
RECURSIVE CallsOfKind(_, _, _)
CallsOfKind(log, n, kind) ==
  IF n = 0 THEN 0
  ELSE CallsOfKind(log, n - 1, kind) + (IF log[n].kind = kind THEN 1 ELSE 0)

\* C18: for every thread count and every interleaving the pairs are handed
\* to keep or discard in the order in which they were read: the n-th call
\* is for pair_no n - 1, also when processors finish chunks out of order,
\* and the ordinal of each call is the number of calls of its kind so far,
\* so order and ordinals are the same for every number of threads.
C18_ReadOrder ==
  \A n \in DOMAIN out_log :
    /\ out_log[n].pair_no = n - 1
    /\ out_log[n].ordinal = CallsOfKind(out_log, n, out_log[n].kind)
    /\ out_log[n].kind = (IF FreshOutcome[cfg][PoolIndex(n - 1)].merged
                          THEN "merged" ELSE "notmerged")

\* three workers, the third chunk processed before the second, and the
\* pairs of the first chunk written, one merged and one not
C18_Witness ==
  /\ opt_threads = 3
  /\ chunks[1].state = "inprogress"
  /\ chunks[2].state = "processed"
  /\ Len(out_log) = chunk_size
  /\ \E i, j \in DOMAIN out_log : out_log[i].kind # out_log[j].kind

\* the chunk_perform_ function a worker at position p is in, if any
C19_Stage(p) ==
  CASE p \in { "read", "reading", "read_lock", "read_post" } -> "read"
    [] p \in { "process", "processing", "process_lock", "process_post" } -> "process"
    [] p \in { "write", "writing", "write_lock", "write_post" } -> "write"
    [] OTHER -> "none"

\* the stages worker t may go through in one iteration of its loop, by the
\* number of threads and the number of the worker
C19_Order(t) ==
  IF opt_threads = 1 THEN << "none", "read", "process", "write", "none" >>
  ELSE IF t = 0 THEN << "none", "read", "process", "none" >>
  ELSE IF t = opt_threads - 1 THEN << "none", "write", "process", "none" >>
  ELSE << "none", "process", "none" >>

\* C19: the thread count fixes the roles. One worker alone performs read,
\* process, write in this order in each iteration; with two workers,
\* worker 0 reads then processes and worker 1 writes then processes; with
\* three or more, worker 0 reads and processes, the last worker writes and
\* processes and the others only process. So only worker 0 is ever in the
\* read stage and only the last worker in the write stage.
C19_FixedRoles ==
  /\ [](\A t \in Threads :
          /\ C19_Stage(pc[t]) = "read" => t = 0
          /\ C19_Stage(pc[t]) = "write" => t = opt_threads - 1)
  /\ [][ \A t \in Threads :
           C19_Stage(pc'[t]) # C19_Stage(pc[t]) =>
             \E n \in 1..(Len(C19_Order(t)) - 1) :
                /\ C19_Order(t)[n] = C19_Stage(pc[t])
                /\ C19_Order(t)[n + 1] = C19_Stage(pc'[t]) ]_vars

\* three workers, each at work in its own stage
C19_Witness ==
  /\ opt_threads = 3
  /\ pc[0] = "reading"
  /\ pc[1] = "processing"
  /\ pc[2] = "writing"

\* worker t takes the step: its position changes, and not because another
\* worker's broadcast wakes it
C20_Steps(t) ==
  pc'[t] # pc[t] /\ ~ (pc[t] = "waiting" /\ pc'[t] = "woken")

\* the step changes a chunk's state, a cursor, a flag or a counter of the
\* scheduler
C20_Updates ==
  \/ \E c \in DOMAIN chunks : chunks'[c].state # chunks[c].state
  \/ chunk_read_next' # chunk_read_next
  \/ chunk_process_next' # chunk_process_next
  \/ chunk_write_next' # chunk_write_next
  \/ finished_reading' # finished_reading
  \/ finished_all' # finished_all
  \/ pairs_read' # pairs_read
  \/ pairs_written' # pairs_written

\* C20: a worker that is about to test a chunk's state (in its wait loop
\* or in the test of chunk_perform_read, _process or _write) holds the
\* mutex, and every step that changes a chunk's state, advances a cursor
\* or updates finished_reading, finished_all, pairs_read or pairs_written
\* is taken by the worker that holds the mutex.
C20_UnderMutex ==
  /\ [](\A t \in Threads :
          pc[t] \in { "wait", "read", "process", "write" } => mutex_chunks = t)
  /\ [][ C20_Updates =>
           /\ mutex_chunks \in Threads
           /\ C20_Steps(mutex_chunks)
           /\ \A t \in Threads \ { mutex_chunks } : ~ C20_Steps(t) ]_vars

\* the writer holds the mutex and is about to update, while the reader and
\* a processor stand before the mutex with their updates
C20_Witness ==
  /\ opt_threads = 3
  /\ mutex_chunks = 2
  /\ pc[2] = "write_post"
  /\ pc[0] = "read_lock"
  /\ pc[1] = "process_lock"

\* the positions of a worker inside the loops that call read_pair, process
\* and keep_or_discard
C21_Work == { "reading", "processing", "writing" }

\* the step calls read_pair, process or keep_or_discard: it fills or
\* changes a slot, counts a pair or hands one to the writer
C21_Call ==
  \/ total' # total
  \/ out_log' # out_log
  \/ \E c \in DOMAIN chunks : chunks'[c].merge_data # chunks[c].merge_data

\* C21: no worker holds the mutex while it calls read_pair, process or
\* keep_or_discard. A worker enters each of these loops from a position
\* where it holds the mutex by a step that releases it, leaves the loop to
\* a position where it must take the mutex again, and every call is made
\* by a worker inside such a loop that does not hold the mutex; whoever
\* holds the mutex is outside these loops.
C21_WorkUnlocked ==
  /\ [](\A t \in Threads :
          pc[t] \in C21_Work \cup { "read_lock", "process_lock", "write_lock" }
            => mutex_chunks # t)
  /\ [][ /\ \A t \in Threads :
             /\ (pc[t] \notin C21_Work /\ pc'[t] \in C21_Work) =>
                  mutex_chunks = t /\ mutex_chunks' = Unlocked
             /\ (pc[t] \in C21_Work /\ pc'[t] \notin C21_Work) =>
                  pc'[t] \in { "read_lock", "process_lock", "write_lock" }
         /\ C21_Call =>
              \E t \in Threads :
                 /\ pc[t] \in C21_Work /\ mutex_chunks # t
                 /\ idx'[t] = idx[t] + 1
                 /\ \A u \in Threads \ { t } : idx'[u] = idx[u] ]_vars

\* the three loops run at the same time and nobody holds the mutex
C21_Witness ==
  /\ opt_threads = 3
  /\ pc[0] = "reading" /\ idx[0] = 1
  /\ pc[1] = "processing" /\ idx[1] = 1
  /\ pc[2] = "writing" /\ idx[2] = 1
  /\ mutex_chunks = Unlocked

\* worker t, by its number, has nothing to do: the run is not finished and
\* no cursor of its stages stands on a chunk in the state the stage expects
C22_NothingToDo(t) ==
  /\ ~ finished_all
  /\ opt_threads > 1
  /\ chunks[chunk_process_next].state # "filled"
  /\ t = 0 => (finished_reading \/ chunks[chunk_read_next].state # "empty")
  /\ t = opt_threads - 1 => chunks[chunk_write_next].state # "processed"

C23_ChunksOf(n) == (n + chunk_size - 1) \div chunk_size

\* the number of chunks claimed so far: those written and those that are
\* in progress or processed
C23_ChunksClaimed ==
  C23_ChunksOf(pairs_written)
    + Cardinality({ c \in DOMAIN chunks :
                      chunks[c].state \in { "inprogress", "processed" } })

\* the order of the cursors round the ring: from the write cursor to the
\* process cursor the chunks are in progress or processed, from there to
\* the read cursor filled, and from there to the write cursor empty
C23_RingOrder ==
  \E w \in { C23_ChunksOf(pairs_written) }, p \in { C23_ChunksClaimed },
     r \in { C23_ChunksOf(pairs_read) } :
     /\ w <= p /\ p <= r /\ r <= w + chunk_count
     /\ chunk_write_next = w % chunk_count
     /\ chunk_process_next = p % chunk_count
     /\ chunk_read_next = r % chunk_count
     /\ \A n \in w..(p - 1) :
          chunks[n % chunk_count].state \in { "inprogress", "processed" }
     /\ \A n \in p..(r - 1) : chunks[n % chunk_count].state = "filled"
     /\ \A n \in r..(w + chunk_count - 1) : chunks[n % chunk_count].state = "empty"

\* a step of a stage on chunk c: the chunk is the one at the cursor of the
\* stage, in the state the stage expects, and the cursor moves with the
\* transition, by one
C23_StageStep(c) ==
  /\ chunks'[c].size # chunks[c].size =>
       c = chunk_read_next /\ chunks[c].state = "empty"
  /\ chunks'[c].merge_data # chunks[c].merge_data =>
       \/ c = chunk_read_next /\ chunks[c].state = "empty"
       \/ chunks[c].state = "inprogress" /\ \E t \in Threads : Claimed(t, c)
  /\ (chunks[c].state = "empty" /\ chunks'[c].state = "filled") =>
       /\ c = chunk_read_next
       /\ chunk_read_next' = (c + 1) % chunk_count
  /\ (chunks[c].state = "filled" /\ chunks'[c].state = "inprogress") =>
       /\ c = chunk_process_next
       /\ chunk_process_next' = (c + 1) % chunk_count
  /\ (chunks[c].state = "inprogress" /\ chunks'[c].state = "processed") =>
       /\ \E t \in Threads : Claimed(t, c)
       /\ chunk_process_next' = chunk_process_next
  /\ (chunks[c].state = "processed" /\ chunks'[c].state = "empty") =>
       /\ c = chunk_write_next
       /\ chunk_write_next' = (c + 1) % chunk_count

\* a cursor moves only with the transition of its stage
C23_CursorStep ==
  /\ chunk_read_next' # chunk_read_next =>
       /\ chunks[chunk_read_next].state = "empty"
       /\ chunks'[chunk_read_next].state = "filled"
  /\ chunk_process_next' # chunk_process_next =>
       /\ chunks[chunk_process_next].state = "filled"
       /\ chunks'[chunk_process_next].state = "inprogress"
  /\ chunk_write_next' # chunk_write_next =>
       /\ chunks[chunk_write_next].state = "processed"
       /\ chunks'[chunk_write_next].state = "empty"
  /\ out_log' # out_log => chunks[chunk_write_next].state = "processed"

\* C23: each stage acts only on the chunk at its own cursor and only when
\* the chunk is in the state it expects (read: empty, process: filled,
\* write: processed), and moves its cursor by one modulo chunk_count with
\* its transition; a cursor never moves otherwise, so that round the ring
\* the write cursor never passes the process cursor and the process
\* cursor never passes the read cursor.
C23_CursorDiscipline ==
  /\ []C23_RingOrder
  /\ [][ C23_CursorStep /\ \A c \in DOMAIN chunks : C23_StageStep(c) ]_vars

\* the ring of one worker after the read cursor has gone round: the third
\* chunk of the input is in the first chunk of the ring
C23_Witness ==
  /\ opt_threads = 1
  /\ pairs_read > chunk_count * chunk_size
  /\ chunk_read_next = 1
  /\ chunk_process_next = 1
  /\ chunk_write_next = 0
  /\ chunks[0].state = "processed"

\* worker t alone takes a step of the loop it is in, without the mutex
C24_LoopStep(t, loop) ==
  /\ pc[t] = loop
  /\ mutex_chunks # t
  /\ idx'[t] = idx[t] + 1
  /\ \A u \in Threads \ { t } : idx'[u] = idx[u] /\ pc[u] # loop

\* C24: the accumulators of the run are never accessed by two threads at
\* a time. total is changed only by worker 0 in its read loop; merged,
\* notmerged, the failed_ counters and what is handed to the writer only
\* by the last worker in its write loop, both without the mutex; and
\* print_stats runs only when every worker has returned (or none was
\* created, the forward file being empty), after which no accumulator
\* changes.
C24_Accumulators ==
  [][ /\ total' # total => C24_LoopStep(0, "reading")
      /\ << merged, notmerged, failed, out_log >>' # << merged, notmerged, failed, out_log >>
           => C24_LoopStep(opt_threads - 1, "writing")
      /\ reported' # reported =>
           /\ mainpc = "after"
           /\ \/ \A t \in Threads : pc[t] = "done"
              \/ nfwd = 0 /\ \A t \in Threads : pc[t] = "idle"
      /\ reported => UNCHANGED accvars ]_vars

\* the report of a run of three workers with pairs of both outcomes
C24_Witness ==
  /\ reported
  /\ opt_threads = 3
  /\ total = MaxPairs
  /\ merged > 0
  /\ notmerged > 0
  /\ \A t \in Threads : pc[t] = "done"

(***************************************************************************)
(* Properties of the per-pair run                                          *)
(***************************************************************************)

\* process has returned for the pair
Processed == ppc \in { "write", "done" }

\* some quality symbol of the pair is outside [qmin, qmax]
BadQuality(rec, c) ==
  \/ \E i \in DOMAIN rec.fwd_quality : get_qual_fatal(c, rec.fwd_quality[i])
  \/ \E i \in DOMAIN rec.rev_quality : get_qual_fatal(c, rec.rev_quality[i])

\* C6: a quality symbol outside the valid range anywhere in either read of
\* a pair ends the run with a fatal error: process never returns for the
\* pair, which gets no Reason and is never written.
C6_BadQualityAborts ==
  BadQuality(pinput, cfg) => (~ Processed) /\ out_log = << >>

\* C7: a pair with a raw read shorter than minlen ends with Reason minlen,
\* is not merged and adds exactly 1 to failed_minlen, whatever the later
\* checks would find.
C7_ShortReadIsMinlen ==
  (Processed /\ (Len(pinput.fwd_sequence) < cfg.minlen
                 \/ Len(pinput.rev_sequence) < cfg.minlen))
    => /\ pslot.reason = "minlen"
       /\ ~ pslot.merged
       /\ ppc = "done" => failed["minlen"] = 1 /\ notmerged = 1

\* the rejection tests of the optimizer, in the order of the claim, each
\* with its condition on the alignment found
RejectionTests(slot, c, b) ==
  << << "repeat", b.hits > 1 >>,
     << "staggered", (~ c.allowmergestagger) /\ b.best_i > slot.fwd_trunc >>,
     << "maxdiffs", b.best_diffs > c.maxdiffs >>,
     << "maxdiffpct", 100 * b.best_diffs > c.maxdiffpct * b.best_i >>,
     << "nokmers", b.kmers = 0 >>,
     << "minscore", b.best_score < merge_minscore(c) >>,
     << "minovlen", b.best_i < c.minovlen >>,
     << "minmergelen", slot.fwd_trunc + slot.rev_trunc - b.best_i < c.minmergelen >>,
     << "maxmergelen", slot.fwd_trunc + slot.rev_trunc - b.best_i > c.maxmergelen >> >>

Rejections == Reasons \ { "undefined", "ok" }

\* C9: after process the Reason of the slot is never undefined, whatever
\* the slot held before; merged is true exactly when the Reason is ok, and
\* offset 0 comes with a rejection Reason; discard is never called with
\* Reason ok or undefined, and failed_undefined stays 0.
C9_ReasonAlwaysSet ==
  /\ Processed =>
       /\ pslot.reason # "undefined"
       /\ pslot.merged <=> pslot.reason = "ok"
       /\ pslot.offset = 0 => pslot.reason \in Rejections \ { "maxee" }
       /\ pslot.offset > 0 => pslot.reason \in { "ok", "maxee" }
  /\ failed["undefined"] = 0
  /\ \A n \in DOMAIN out_log :
       out_log[n].kind = "notmerged" => out_log[n].reason \in Rejections

\* a slot that held a merged pair, reused for a pair that is rejected
C9_Witness ==
  /\ ppc = "done"
  /\ pslot.merged_length > 0
  /\ pslot.reason = "nokmers"
  /\ failed["nokmers"] = 1

\* C10: for every accepted offset, 1 <= offset <= fwd_trunc + rev_trunc - 1,
\* merge produces merged_length = forward overhang + overlap + reverse
\* overhang = fwd_trunc + rev_trunc - offset, with a terminating zero at
\* index merged_length of the merged sequence and of the merged quality.
C10_MergedLength ==
  (Processed /\ pslot.offset > 0) =>
    \E z \in { MergeZones(pslot, cfg) } :
       /\ pslot.offset <= pslot.fwd_trunc + pslot.rev_trunc - 1
       /\ z.fwd_overhang = Max(pslot.fwd_trunc - pslot.offset, 0)
       /\ z.overlap = Min(pslot.offset, pslot.fwd_trunc)
                        - Max(pslot.offset - pslot.rev_trunc, 0)
       /\ z.rev_overhang = Max(pslot.rev_trunc - pslot.offset, 0)
       /\ pslot.merged_length = z.fwd_overhang + z.overlap + z.rev_overhang
       /\ pslot.merged_length = pslot.fwd_trunc + pslot.rev_trunc - pslot.offset
       /\ pslot.merged_length < pslot.merged_seq_alloc
       /\ pslot.merged_sequence[pslot.merged_length + 1] = NUL
       /\ pslot.merged_quality[pslot.merged_length + 1] = QNUL

\* a staggered merge shorter than the merge the slot held before
C10_Witness ==
  /\ Processed
  /\ pslot.merged
  /\ pslot.offset > pslot.fwd_trunc
  /\ pslot.merged_length + 1 < pslot.merged_seq_alloc
  /\ pslot.merged_quality[pslot.merged_length + 2] # QJunk

\* the sum of the error probabilities of the first n quality symbols
RECURSIVE ExpectedError(_, _)
ExpectedError(quality, n) ==
  IF n = 0 THEN 0 ELSE q2p(quality[n]) + ExpectedError(quality, n - 1)

\* C11: for a pair with a non-zero offset the outcome is decided by the
\* merged expected error alone: above the ceiling the Reason is maxee and
\* merged stays false, otherwise the Reason is ok and merged is true; the
\* expected error is that of the merged record, and every pair handed to
\* keep has ee_merged <= the ceiling.
C11_MaxeeDecides ==
  /\ (Processed /\ pslot.offset > 0) =>
       /\ pslot.ee_merged = ExpectedError(pslot.merged_quality, pslot.merged_length)
       /\ IF pslot.ee_merged > cfg.maxee
          THEN pslot.reason = "maxee" /\ ~ pslot.merged
          ELSE pslot.reason = "ok" /\ pslot.merged
  /\ \A n \in DOMAIN out_log :
       out_log[n].kind = "merged" =>
         /\ pslot.offset > 0
         /\ pslot.ee_merged <= cfg.maxee

\* an alignment was found and merged, and the pair is discarded for maxee
C11_Witness ==
  /\ ppc = "done"
  /\ pslot.offset > 0
  /\ pslot.reason = "maxee"
  /\ pslot.ee_merged > cfg.maxee
  /\ failed["maxee"] = 1

\* the sum of the failed_* counters of the Reasons in S
RECURSIVE FailedSum(_, _)
FailedSum(f, S) ==
  IF S = { } THEN 0
  ELSE LET r == CHOOSE x \in S : TRUE
       IN f[r] + FailedSum(f, S \ { r })

\* the effect of one call of keep or discard on the counters
C13_Call ==
  out_log' # out_log =>
    /\ Len(out_log') = Len(out_log) + 1
    /\ total' = total
    /\ \E e \in { out_log'[Len(out_log')] } :
         IF e.kind = "notmerged"
         THEN /\ notmerged' = notmerged + 1
              /\ merged' = merged
              /\ e.reason \in Rejections
              /\ failed' = [ failed EXCEPT ![e.reason] = @ + 1 ]
         ELSE /\ merged' = merged + 1
              /\ notmerged' = notmerged
              /\ failed' = failed

\* C13: each call of discard adds 1 to notmerged and 1 to the failure
\* counter of the pair's Reason and leaves every other counter and merged
\* unchanged; each call of keep adds 1 to merged and changes no failure
\* counter; in every state the failure counters sum to notmerged.
C13_CountersFrame ==
  /\ [](FailedSum(failed, Reasons) = notmerged)
  /\ [][C13_Call]_vars

\* a pair discarded for its short overlap
C13_Witness ==
  /\ ppc = "done"
  /\ failed["minovlen"] = 1
  /\ notmerged = 1
  /\ merged = 0

\* the merged record of the slot, as keep hands it to the writer
C14_Kept(w) ==
  /\ w = merged_record(pslot)
  /\ Len(w.sequence) = pslot.merged_length
  /\ Len(w.quality) = pslot.merged_length
  /\ \A i \in DOMAIN w.sequence : w.sequence[i] \notin { NUL, Junk }
  /\ \A i \in DOMAIN w.quality : w.quality[i] \notin { QNUL, QJunk }

\* read w is the first len symbols of the read the pair came with, but for
\* the quality of N's before position trunc, which may be recoded
C14_Recoded(w, sequence, quality, len, trunc) ==
  /\ w.sequence = SubSeq(sequence, 1, len)
  /\ Len(w.quality) = len
  /\ \A i \in 1..len :
       w.quality[i] # quality[i] =>
         /\ sequence[i] = "N"
         /\ i <= trunc
         /\ w.quality[i] = cfg.ascii

C15_TablesWithinBounds ==
  \A x, y \in QSyms :
     /\ merge_qual_same(cfg, x, y) - cfg.ascii \in cfg.qminout..cfg.qmaxout
     /\ merge_qual_diff(cfg, x, y) - cfg.ascii \in cfg.qminout..cfg.qmaxout

\* a merged pair with an overlap base whose quality the agreement table
\* brought down to qmaxout
C15_Witness ==
  /\ Processed
  /\ pslot.merged
  /\ pslot.offset > 0
  /\ pslot.fwd_trunc > pslot.offset
  /\ QualSameRaw[73][73] > cfg.qmaxout
  /\ pslot.fwd_quality[pslot.fwd_trunc] = 73
  /\ pslot.merged_quality[pslot.fwd_trunc] = cfg.ascii + cfg.qmaxout

\* the bases of the overlap that offset fixes: the forward bases from
\* position first on, each with the reverse base it is aligned with
C16_OverlapPairs ==
  LET first == Max(pslot.fwd_trunc - pslot.offset, 0)
      last == pslot.rev_trunc - 1 - Max(pslot.offset - pslot.fwd_trunc, 0)
      length == Min(pslot.offset, pslot.fwd_trunc)
                  - Max(pslot.offset - pslot.rev_trunc, 0)
  IN [ j \in 1..length |->
         << pinput.fwd_sequence[first + j],
            chrmap_complement(pinput.rev_sequence[last + 2 - j]) >> ]

\* C16: when the overlap of an accepted offset holds no mismatch and no
\* ambiguous base, the merged sequence is the first fwd_trunc - offset
\* forward bases, then the overlap bases, each the agreeing base, then the
\* reverse complement of the reverse bases outside the overlap, and
\* fwd_errors and rev_errors are 0.
C16_MergedSequence ==
  (/\ Processed
   /\ pslot.offset > 0
   /\ \A j \in DOMAIN C16_OverlapPairs :
        /\ C16_OverlapPairs[j][1] = C16_OverlapPairs[j][2]
        /\ C16_OverlapPairs[j][1] # "N")
    => /\ Printed(pslot.merged_sequence, pslot.merged_length)
            = SubSeq(pinput.fwd_sequence, 1, Max(pslot.fwd_trunc - pslot.offset, 0))
              \o [ j \in DOMAIN C16_OverlapPairs |-> C16_OverlapPairs[j][1] ]
              \o ReverseComplement(
                   SubSeq(pinput.rev_sequence, 1, Max(pslot.rev_trunc - pslot.offset, 0)))
       /\ pslot.fwd_errors = 0
       /\ pslot.rev_errors = 0

\* a merged pair with both overhangs and an overlap without mismatches
C16_Witness ==
  /\ Processed
  /\ pslot.merged
  /\ pslot.fwd_trunc > pslot.offset
  /\ pslot.rev_trunc > pslot.offset
  /\ pinput.rev_sequence[1] = "G"
  /\ \A j \in DOMAIN C16_OverlapPairs :
       /\ C16_OverlapPairs[j][1] = C16_OverlapPairs[j][2]
       /\ C16_OverlapPairs[j][1] # "N"


\* the positions of the overlap that offset fixes: the j-th forward base of
\* the overlap, the reverse base aligned with it, complemented, their
\* quality symbols, and the merged position they are resolved into
OverlapColumns ==
  LET first == Max(pslot.fwd_trunc - pslot.offset, 0)
      last == pslot.rev_trunc - 1 - Max(pslot.offset - pslot.fwd_trunc, 0)
      length == Min(pslot.offset, pslot.fwd_trunc)
                  - Max(pslot.offset - pslot.rev_trunc, 0)
  IN [ j \in 1..length |->
         [ fwd_sym |-> pinput.fwd_sequence[first + j],
           rev_sym |-> chrmap_complement(pinput.rev_sequence[last + 2 - j]),
           fwd_qual |-> pinput.fwd_quality[first + j],
           rev_qual |-> pinput.rev_quality[last + 2 - j],
           merged_pos |-> first + j ] ]

\* a base is ambiguous when it is N or its quality value is below 2
C25_Ambiguous(c, sym, qual) == sym = "N" \/ quality_value(c, qual) < 2

\* C25: in the overlap, when neither base is ambiguous, two bases that
\* agree give that base with the quality of the agreement table at
\* (forward quality, reverse quality); two bases that disagree give the
\* base of the higher quality, the reverse base when the qualities are
\* equal, with the quality of the disagreement table at (winning quality,
\* losing quality).
C25_OverlapConsensus ==
  (Processed /\ pslot.offset > 0) =>
    \A j \in DOMAIN OverlapColumns :
      \E o \in { OverlapColumns[j] } :
        (~ C25_Ambiguous(cfg, o.fwd_sym, o.fwd_qual) /\ ~ C25_Ambiguous(cfg, o.rev_sym, o.rev_qual))
          => /\ o.fwd_sym = o.rev_sym =>
                  /\ pslot.merged_sequence[o.merged_pos] = o.fwd_sym
                  /\ pslot.merged_quality[o.merged_pos]
                       = merge_qual_same(cfg, o.fwd_qual, o.rev_qual)
             /\ (o.fwd_sym # o.rev_sym /\ o.fwd_qual > o.rev_qual) =>
                  /\ pslot.merged_sequence[o.merged_pos] = o.fwd_sym
                  /\ pslot.merged_quality[o.merged_pos]
                       = merge_qual_diff(cfg, o.fwd_qual, o.rev_qual)
             /\ (o.fwd_sym # o.rev_sym /\ o.fwd_qual <= o.rev_qual) =>
                  /\ pslot.merged_sequence[o.merged_pos] = o.rev_sym
                  /\ pslot.merged_quality[o.merged_pos]
                       = merge_qual_diff(cfg, o.rev_qual, o.fwd_qual)

\* a merged pair whose overlap holds a disagreement won by the forward
\* base, of the higher quality, beside agreeing bases
C25_Witness ==
  /\ Processed
  /\ pslot.merged
  /\ \E j \in DOMAIN OverlapColumns :
       \E o \in { OverlapColumns[j] } :
          /\ o.fwd_sym # o.rev_sym
          /\ o.fwd_sym # "N" /\ o.rev_sym # "N"
          /\ o.fwd_qual = 73 /\ o.rev_qual = 35
          /\ pslot.merged_sequence[o.merged_pos] = o.fwd_sym
          /\ pslot.merged_quality[o.merged_pos] # o.fwd_qual
  /\ pslot.merged_length > pslot.fwd_trunc


\* C26: in the overlap, when one side is ambiguous (its base is N or its
\* quality value is below 2) and the other is not, the merged base and the
\* merged quality are the base and the quality of the other side, not a
\* value of the agreement or disagreement table.
C26_AmbiguousTakesOther ==
  (Processed /\ pslot.offset > 0) =>
    \A j \in DOMAIN OverlapColumns :
      \E o \in { OverlapColumns[j] } :
        /\ (C25_Ambiguous(cfg, o.fwd_sym, o.fwd_qual)
             /\ ~ C25_Ambiguous(cfg, o.rev_sym, o.rev_qual)) =>
              /\ pslot.merged_sequence[o.merged_pos] = o.rev_sym
              /\ pslot.merged_quality[o.merged_pos] = o.rev_qual
        /\ (C25_Ambiguous(cfg, o.rev_sym, o.rev_qual)
             /\ ~ C25_Ambiguous(cfg, o.fwd_sym, o.fwd_qual)) =>
              /\ pslot.merged_sequence[o.merged_pos] = o.fwd_sym
              /\ pslot.merged_quality[o.merged_pos] = o.fwd_qual


\* the scores of the pairs of bases of diagonal i, in the order of the
\* inner loop of optimize: from the 3' end of the forward overlap down
C27_Steps(slot, i) ==
  LET g == DiagGeometry(slot, i)
  IN [ j \in 1..g.overlap |->
         LET f == g.fwd_pos_start - j + 2
             r == g.rev_pos_start + j
         IN IF slot.fwd_sequence[f] = chrmap_complement(slot.rev_sequence[r])
            THEN match_score[slot.fwd_quality[f]][slot.rev_quality[r]]
            ELSE mism_score(slot.fwd_quality[f], slot.rev_quality[r]) ]

\* the score accumulated over the first n pairs of bases
RECURSIVE C27_Sum(_, _)
C27_Sum(steps, n) == IF n = 0 THEN 0 ELSE C27_Sum(steps, n - 1) + steps[n]

C27_Largest(S) == CHOOSE x \in S : \A y \in S : y <= x

\* the running maximum of the accumulated score after n pairs of bases
C27_High(steps, n) == C27_Largest({ C27_Sum(steps, m) : m \in 0..n })

\* the largest drop of the accumulated score below its running maximum
C27_Drop(steps) ==
  C27_Largest({ C27_High(steps, n) - C27_Sum(steps, n) : n \in 0..Len(steps) })

\* the diagonals optimize scores: those with enough shared k-mers
C27_Diagonals ==
  { i \in 1..(pslot.fwd_trunc + pslot.rev_trunc - 1) :
      kh_find_diagonals(pslot, pslot.rev_trunc + pslot.fwd_trunc - i)
        >= merge_mindiagcount(cfg) }

\* the score the claim gives diagonal i: zero when the drop is above the
\* ceiling (or at it, when atCeiling), the accumulated score otherwise
C27_Score(i, atCeiling) ==
  \E st \in { C27_Steps(pslot, i) } :
    \E drop \in { C27_Drop(st) } :
      \E d \in { DiagScore(pslot, i) } :
        /\ d.dropmax = drop
        /\ d.score = IF drop > merge_dropmax \/ (atCeiling /\ drop = merge_dropmax)
                     THEN 0 ELSE C27_Sum(st, Len(st))

\* the best score and the hits of optimize are those of the scores of the
\* diagonals
C27_BestAndHits ==
  \E sc \in { [ i \in C27_Diagonals |-> DiagScore(pslot, i).score ] } :
    /\ palign.best_score = C27_Largest({ 0 } \cup { sc[i] : i \in C27_Diagonals })
    /\ palign.hits = Cardinality({ i \in C27_Diagonals : sc[i] >= merge_minscore(cfg) })

\* C27 as claimed: for every diagonal with enough shared k-mers optimize
\* tracks the running maximum of the accumulated score and the largest
\* drop below it, and the diagonal scores zero exactly when that drop
\* exceeds merge_dropmax (16); otherwise it keeps its accumulated score
\* for the best score and the hits.
C27_ZeroedAboveCeiling ==
  (Processed /\ palign.ran) =>
    /\ \A i \in C27_Diagonals : C27_Score(i, FALSE)
    /\ C27_BestAndHits

\* C27: for every diagonal with enough shared k-mers optimize tracks the
\* running maximum of the accumulated score and the largest drop below
\* it, and the diagonal scores zero exactly when that drop is merge_dropmax
\* (16) or more; otherwise it keeps its accumulated score for the best
\* score and the hits.
C27_ZeroedAtCeiling ==
  (Processed /\ palign.ran) =>
    /\ \A i \in C27_Diagonals : C27_Score(i, TRUE)
    /\ C27_BestAndHits

\* a diagonal with shared k-mers whose score drops by exactly
\* merge_dropmax: four mismatches of 4 bits each, then matches
C27_Witness ==
  /\ Processed
  /\ palign.ran
  /\ \E i \in C27_Diagonals :
       \E st \in { C27_Steps(pslot, i) } :
          /\ C27_Drop(st) = merge_dropmax
          /\ C27_Sum(st, Len(st)) # 0
          /\ DiagScore(pslot, i).score = 0


\* the index of the first position of a read whose quality value is at or
\* below the truncation threshold, the length of the read if there is none
C28_FirstLow(quality) ==
  CHOOSE i \in 0..Len(quality) :
    /\ i < Len(quality) => quality[i + 1] - cfg.ascii <= cfg.truncqual
    /\ \A h \in 0..(i - 1) : quality[h + 1] - cfg.ascii > cfg.truncqual

\* both raw lengths are within fastq_minlen and fastq_maxlen
C28_RawLengthsPass ==
  /\ Len(pinput.fwd_sequence) >= cfg.minlen /\ Len(pinput.rev_sequence) >= cfg.minlen
  /\ Len(pinput.fwd_sequence) <= cfg.maxlen /\ Len(pinput.rev_sequence) <= cfg.maxlen

\* C28: after process, fwd_trunc <= fwd_length and rev_trunc <= rev_length;
\* for a pair whose raw lengths pass, fwd_trunc is the index of the first
\* forward position with a quality value at or below fastq_truncqual
\* (fwd_length if there is none), rev_trunc is the same for the reverse
\* read when the truncated forward read is not below fastq_minlen, and a
\* truncated length below fastq_minlen gives Reason minlen.
C28_Truncation ==
  Processed =>
    /\ pslot.fwd_trunc <= pslot.fwd_length
    /\ pslot.rev_trunc <= pslot.rev_length
    /\ pslot.fwd_length = Len(pinput.fwd_sequence)
    /\ pslot.rev_length = Len(pinput.rev_sequence)
    /\ C28_RawLengthsPass =>
         /\ pslot.fwd_trunc = C28_FirstLow(pinput.fwd_quality)
         /\ pslot.fwd_trunc >= cfg.minlen =>
              pslot.rev_trunc = C28_FirstLow(pinput.rev_quality)
         /\ (pslot.fwd_trunc < cfg.minlen \/ pslot.rev_trunc < cfg.minlen) =>
              pslot.reason = "minlen"

\* a pair of reads long enough, the forward read not truncated, the
\* reverse read truncated by a Q2 base to less than fastq_minlen
C28_Witness ==
  /\ Processed
  /\ C28_RawLengthsPass
  /\ cfg.truncqual = 2
  /\ pslot.fwd_trunc = pslot.fwd_length
  /\ pslot.rev_trunc > 0
  /\ pslot.rev_trunc < cfg.minlen
  /\ pinput.rev_quality[pslot.rev_trunc + 1] = 35
  /\ pslot.reason = "minlen"


\* the positions of the two reads that the inner loop of optimize uses on
\* diagonal i are inside the truncated reads
C29_DiagonalInBounds(i) ==
  /\ pslot.rev_trunc + pslot.fwd_trunc - i >= 1
  /\ pslot.rev_trunc + pslot.fwd_trunc - i < pslot.fwd_trunc + pslot.rev_trunc
  /\ \E g \in { DiagGeometry(pslot, i) } :
       /\ g.overlap >= 0
       /\ g.overlap > 0 =>
            /\ g.fwd_pos_start < pslot.fwd_trunc
            /\ g.fwd_pos_start - (g.overlap - 1) >= 0
            /\ g.rev_pos_start >= 0
            /\ g.rev_pos_start + (g.overlap - 1) < pslot.rev_trunc

\* the positions merge uses: forward positions up to the end of the
\* overlap, reverse positions from that of the first overlap base down to
\* 0, merged positions up to the terminator
C29_MergeInBounds ==
  \E z \in { MergeZones(pslot, cfg) } :
    \E rev_start \in { pslot.rev_trunc - 1 - Max(pslot.offset - pslot.fwd_trunc, 0) } :
      /\ z.fwd_overhang + z.overlap <= pslot.fwd_trunc
      /\ rev_start >= 0 /\ rev_start < pslot.rev_trunc
      /\ z.overlap + z.rev_overhang = rev_start + 1
      /\ z.merged_pos = pslot.merged_length
      /\ z.merged_pos <= pslot.fwd_length + pslot.rev_length
      /\ pslot.fwd_length + pslot.rev_length < pslot.merged_seq_alloc
      /\ Len(pslot.merged_sequence) = pslot.merged_seq_alloc
      /\ Len(pslot.merged_quality) = pslot.merged_seq_alloc

\* C29: for every pair that reaches optimize and merge, with any
\* truncation and any offset optimize returns, every index is in bounds:
\* the index into diags lies in 1..fwd_trunc + rev_trunc - 1, below the
\* size fwd_trunc + rev_trunc of the array; forward positions lie in
\* 0..fwd_trunc - 1 and reverse positions in 0..rev_trunc - 1; and the
\* merged positions, the terminator included, are at most fwd_length +
\* rev_length, below the merged_seq_alloc that read_pair reserved.
C29_IndexesInBounds ==
  (Processed /\ palign.ran) =>
    /\ 0 <= pslot.fwd_trunc /\ pslot.fwd_trunc <= pslot.fwd_length
    /\ 0 <= pslot.rev_trunc /\ pslot.rev_trunc <= pslot.rev_length
    /\ pslot.fwd_length < pslot.seq_alloc /\ pslot.rev_length < pslot.seq_alloc
    /\ pslot.offset >= 0 /\ pslot.offset <= pslot.fwd_trunc + pslot.rev_trunc - 1
    /\ \A i \in 1..(pslot.fwd_trunc + pslot.rev_trunc - 1) : C29_DiagonalInBounds(i)
    /\ pslot.offset > 0 => C29_MergeInBounds

\* a pair with a truncated forward read for which optimize returned an
\* offset, so that merge wrote a merged sequence that goes on beyond the
\* forward read and ends before the end of the buffer
C29_Witness ==
  /\ Processed
  /\ palign.ran
  /\ pslot.offset > 0
  /\ pslot.fwd_trunc < pslot.fwd_length
  /\ pslot.merged_length > pslot.fwd_trunc
  /\ pslot.merged_length + 1 <= pslot.merged_seq_alloc


\* the (forward position, reverse position) pairs that the inner loop of
\* optimize scores on diagonal i
C30_Scored(i) ==
  LET g == DiagGeometry(pslot, i)
  IN { << g.fwd_pos_start - j, g.rev_pos_start + j >> : j \in 0..(g.overlap - 1) }

\* the pairs that the second loop of merge resolves: it starts after the
\* 5' overhang of the forward read and at the reverse position left of the
\* 3' overhang of the reverse read, and makes as many steps as merged
\* positions lie between the first and the third loop
C30_Resolved ==
  LET rev_3prime_overhang == IF pslot.offset > pslot.fwd_trunc
                             THEN pslot.offset - pslot.fwd_trunc ELSE 0
  IN Let(MergeZones(pslot, cfg),
         LAMBDA z :
           { << z.fwd_overhang + j, pslot.rev_trunc - 1 - rev_3prime_overhang - j >> :
               j \in 0..(z.overlap - 1) })

\* the pairs of a set whose forward base differs from the complemented
\* reverse base
C30_Differing(S) ==
  { p \in S : pinput.fwd_sequence[p[1] + 1]
                # chrmap_complement(pinput.rev_sequence[p[2] + 1]) }

\* C30: optimize and merge agree on the alignment: for the offset that
\* optimize returns, the set of (forward position, reverse position) pairs
\* scored on that diagonal is the set of pairs resolved in the overlap zone
\* of merge, whether the overlap is normal, contained or staggered; and
\* best_diffs, the count tested against maxdiffs, is the number of overlap
\* positions whose forward base differs from the complemented reverse base.
C30_SameAlignment ==
  (Processed /\ palign.ran) =>
    /\ pslot.offset > 0 =>
         /\ pslot.offset = palign.best_i
         /\ C30_Scored(pslot.offset) = C30_Resolved
         /\ palign.best_diffs = Cardinality(C30_Differing(C30_Resolved))
         /\ palign.best_diffs
              = Cardinality({ j \in DOMAIN OverlapColumns :
                                OverlapColumns[j].fwd_sym # OverlapColumns[j].rev_sym })
         /\ palign.best_diffs <= cfg.maxdiffs
    /\ palign.best_i > 0 =>
         palign.best_diffs = Cardinality(C30_Differing(C30_Scored(palign.best_i)))
    /\ pslot.reason = "maxdiffs" =>
         Cardinality(C30_Differing(C30_Scored(palign.best_i))) > cfg.maxdiffs

\* a staggered pair merged with a mismatch in its overlap
C30_Witness ==
  /\ Processed
  /\ palign.ran
  /\ pslot.merged
  /\ pslot.offset > pslot.fwd_trunc
  /\ palign.best_diffs > 0
  /\ C30_Scored(pslot.offset) = C30_Resolved

\* a contained pair, the reverse read lying inside the forward read, for
\* which optimize returned an offset
C30_WitnessContained ==
  /\ Processed
  /\ palign.ran
  /\ pslot.offset > pslot.rev_trunc
  /\ pslot.offset <= pslot.fwd_trunc
  /\ C30_Scored(pslot.offset) = C30_Resolved

=============================================================================
